---- MODULE Spec2Model ----
(***************************************************************************)
(* Model of the reasoning-translation barrier of the TUI                   *)
(* (codex-rs/tui/src/translation/orchestrator.rs).                         *)
(*                                                                         *)
(* Strings are sequences of one-character strings; Option<T> is a          *)
(* sequence of length 0 (None) or 1 (Some).                                *)
(***************************************************************************)
EXTENDS Integers, Sequences, FiniteSets, TLC

VARIABLES
    enabled,                 \* ReasoningTranslator.enabled
    config,                  \* ReasoningTranslator.config (the enabled field)
    translation_barrier,     \* Option<TranslationBarrier>
    deferred_history_cells,  \* VecDeque<Box<dyn HistoryCell>>
    translation_seq,         \* u64
    results,                 \* the unbounded mpsc channel results_tx -> results_rx
    app_events,              \* the cells sent as AppEvent::InsertHistoryCell, in order
    tasks,                   \* spawned translation tasks that have not sent yet
    frames,                  \* the delays passed to FrameRequester::schedule_frame_in
    task_frames,             \* number of FrameRequester::schedule_frame calls of tasks
    now,                     \* Instant::now(), in milliseconds
    env,                     \* value of CODEX_TUI_TRANSLATION_MAX_WAIT_MS
    pc,                      \* where the orchestrator is inside a tick
    tick,                    \* the running tick: its argument, its accumulated result
                             \* and (history) the return taken for each message and
                             \* the time at which the tick was entered
    intercepted,             \* history: the cells handed to the intercept entry points
    opened,                  \* history: one record per barrier opened
    closed,                  \* history: one record per barrier closed
    call,                    \* Option: the direct call of maybe_translate_reasoning
                             \* that has just returned, its arguments and its result
    split,                   \* a text handed to extract_first_bold and
                             \* extract_reasoning_body, and what each returned
    woken                    \* number of the wake-ups asked for through
                             \* schedule_frame_in that the host loop has answered
                             \* with a tick

vars == <<enabled, config, translation_barrier, deferred_history_cells,
          translation_seq, results, app_events, tasks, frames, task_frames,
          now, env, pc, tick, intercepted, opened, closed, call, split,
          woken>>

----------------------------------------------------------------------------
(* Bounds of the model.                                                    *)

\* Number of cells the host hands to the orchestrator.
MaxItems == 3

\* Length of the longest text handed to the splitter.
MaxLen == 9

\* Number of barriers after which the host makes no further direct call of
\* maybe_translate_reasoning.
MaxCalls == 2

----------------------------------------------------------------------------
(* Option and string helpers.                                              *)

None == << >>

Some(x) == <<x>>

IsSome(o) == o /= << >>

Unwrap(o) == o[1]

\* char::is_whitespace on the characters the model uses.
IsWhitespace(c) == c \in {" ", "\n", "\t"}

RECURSIVE TrimStart(_)
\* str::trim_start
TrimStart(s) ==
    IF s = << >> THEN s
    ELSE IF IsWhitespace(Head(s)) THEN TrimStart(Tail(s))
    ELSE s

RECURSIVE TrimEnd(_)
\* str::trim_end
TrimEnd(s) ==
    IF s = << >> THEN s
    ELSE IF IsWhitespace(s[Len(s)]) THEN TrimEnd(SubSeq(s, 1, Len(s) - 1))
    ELSE s

\* str::trim
Trim(s) == TrimEnd(TrimStart(s))

\* bytes[i] == b'*' && bytes[i + 1] == b'*', with i a 0-based index.
StarsAt(s, i) == s[i + 1] = "*" /\ s[i + 2] = "*"

\* str::find("**"): the 0-based index of the first "**", or None.
FindStars(s) ==
    LET hits == {i \in 0..(Len(s) - 2) : StarsAt(s, i)}
    IN  IF hits = {} THEN None
        ELSE Some(CHOOSE i \in hits : \A k \in hits : i <= k)

\* &s[a..b] with 0-based a (inclusive) and b (exclusive).
Slice(s, a, b) == SubSeq(s, a + 1, b)

RECURSIVE InnerScan(_, _)
\* The inner while loop of extract_first_bold: scans j upward for a closing
\* "**"; found tells whether the loop stopped at one, j is the final index.
InnerScan(s, j) ==
    IF ~(j + 1 < Len(s)) THEN [found |-> FALSE, j |-> j]
    ELSE IF StarsAt(s, j) THEN [found |-> TRUE, j |-> j]
    ELSE InnerScan(s, j + 1)

RECURSIVE OuterScan(_, _)
\* The outer while loop of extract_first_bold from index i.
OuterScan(s, i) ==
    IF ~(i + 1 < Len(s)) THEN None
    ELSE IF StarsAt(s, i)
         THEN LET start == i + 2
                  r == InnerScan(s, start)
                  trimmed == Trim(Slice(s, start, r.j))
              IN  IF r.found /\ trimmed /= << >>
                  THEN Some(trimmed)
                  ELSE OuterScan(s, r.j + 2)
         ELSE OuterScan(s, i + 1)

\* extract_first_bold
ExtractFirstBold(s) == OuterScan(s, 0)

\* Variant of ExtractReasoningBody: the text is not trimmed first.
ExtractReasoningBody_Untrimmed(full_reasoning) ==
    LET t == full_reasoning
        open == FindStars(t)
    IN  IF ~IsSome(open) THEN None
        ELSE LET after_open == Slice(t, Unwrap(open) + 2, Len(t))
                 close == FindStars(after_open)
             IN  IF ~IsSome(close) THEN None
                 ELSE LET after_close_idx == Unwrap(open) + 2 + Unwrap(close) + 2
                      IN  IF after_close_idx >= Len(t) THEN None
                          ELSE LET body == TrimStart(Slice(t, after_close_idx, Len(t)))
                               IN  IF body = << >> THEN None ELSE Some(body)

\* extract_reasoning_body
ExtractReasoningBody(full_reasoning) ==
    LET t == Trim(full_reasoning)
        open == FindStars(t)
    IN  IF ~IsSome(open) THEN None
        ELSE LET after_open == Slice(t, Unwrap(open) + 2, Len(t))
                 close == FindStars(after_open)
             IN  IF ~IsSome(close) THEN None
                 ELSE LET after_close_idx == Unwrap(open) + 2 + Unwrap(close) + 2
                      IN  IF after_close_idx >= Len(t) THEN None
                          ELSE LET body == TrimStart(Slice(t, after_close_idx, Len(t)))
                               IN  IF body = << >> THEN None ELSE Some(body)

----------------------------------------------------------------------------
(* Program constants and the values the collaborators supply.              *)

\* DEFAULT_TRANSLATION_MAX_WAIT_MS
DEFAULT_TRANSLATION_MAX_WAIT_MS == 5000

\* u64::MAX, narrowed to the largest integer TLC represents.
U64_MAX == 2147483647

\* The largest Instant the platform represents, narrowed like U64_MAX.
INSTANT_MAX == 2147483647

\* ThreadId values of the host.
ThreadIds == {"t1", "t2"}

\* Option<ThreadId>: the active thread the host passes to on_draw_tick.
ActiveThreadIds == {None} \cup {Some(t) : t \in ThreadIds}

\* Option<ThreadId>: the active thread the host passes along with a new cell.
HookThreadIds == {None, Some("t1")}

\* "**T**\nh": a title and a body.
TextThinking == <<"*", "*", "T", "*", "*", "\n", "h">>

\* "**E**": a title without a body.
TextTitleOnly == <<"*", "*", "E", "*", "*">>

\* Reasoning markdown the host's cells carry.
ReasoningTexts == {TextThinking, TextTitleOnly}

\* "**X**y": a translation that repeats the title markup.
TranslatedWithTitle == <<"*", "*", "X", "*", "*", "y">>

\* "zz": a translation without markup.
TranslatedRaw == <<"z", "z">>

\* What do_translate resolves to: Ok(translated) or Err(e), e.to_string().
TranslateOutcomes ==
    {[ok |-> TRUE, text |-> TranslatedWithTitle],
     [ok |-> FALSE, text |-> <<"b", "a", "d">>]}

\* Values of the environment variable: unset, " 1".
EnvValues == {None, Some(<<" ", "1">>)}

----------------------------------------------------------------------------
(* History cells.                                                          *)

\* A cell of the host that is no ReasoningSummaryCell.
PlainCell(id) == [kind |-> "plain", id |-> id, title |-> None, text |-> None]

\* A ReasoningSummaryCell with its markdown.
ReasoningCell(id, text) ==
    [kind |-> "reasoning", id |-> id, title |-> None, text |-> Some(text)]

\* history_cell::new_agent_reasoning_translation_block(title, content)
NewAgentReasoningTranslationBlock(title, content) ==
    [kind |-> "translation", id |-> 0, title |-> title, text |-> Some(content)]

\* history_cell::new_agent_reasoning_translation_error_block(title, reason)
NewAgentReasoningTranslationErrorBlock(title, reason) ==
    [kind |-> "translation_error", id |-> 0, title |-> title, text |-> Some(reason)]

\* cell.as_any().downcast_ref::<ReasoningSummaryCell>()
\*     .and_then(ReasoningSummaryCell::full_markdown_for_translation)
FullMarkdownForTranslation(cell) ==
    IF cell.kind = "reasoning" THEN cell.text ELSE None

\* The cells the host can produce with identity id.
HostCells(id) == {PlainCell(id)} \cup {ReasoningCell(id, t) : t \in ReasoningTexts}

----------------------------------------------------------------------------
(* Numbers and their text.                                                 *)

DigitChars == <<"0", "1", "2", "3", "4", "5", "6", "7", "8", "9">>

IsDigit(c) == \E d \in 1..10 : DigitChars[d] = c

DigitValue(c) == (CHOOSE d \in 1..10 : DigitChars[d] = c) - 1

RECURSIVE ParseDigits(_, _)
\* Accumulates decimal digits; None on a non-digit or on overflow of u64.
ParseDigits(s, acc) ==
    IF s = << >> THEN Some(acc)
    ELSE IF ~IsDigit(Head(s)) THEN None
    ELSE LET d == DigitValue(Head(s))
         IN  IF acc > (U64_MAX - d) \div 10 THEN None
             ELSE ParseDigits(Tail(s), acc * 10 + d)

\* str::parse::<u64>: an optional "+" and at least one digit.
ParseU64(s) ==
    LET digits == IF s /= << >> /\ Head(s) = "+" THEN Tail(s) ELSE s
    IN  IF digits = << >> THEN None ELSE ParseDigits(digits, 0)

RECURSIVE FormatU(_)
\* Display of an unsigned integer.
FormatU(n) ==
    IF n < 10 THEN <<DigitChars[n + 1]>>
    ELSE FormatU(n \div 10) \o <<DigitChars[(n % 10) + 1]>>

\* format!("Translation timeout ({max_wait_ms}ms)")
TimeoutMessage(max_wait_ms) ==
    <<"T", "r", "a", "n", "s", "l", "a", "t", "i", "o", "n", " ",
      "t", "i", "m", "e", "o", "u", "t", " ", "(">>
    \o FormatU(max_wait_ms) \o <<"m", "s", ")">>

\* Variant of SaturatingAdd: u64::wrapping_add.
SaturatingAdd_Wrapping(a, b) == IF a > U64_MAX - b THEN a - (U64_MAX - b) - 1 ELSE a + b

\* u64::saturating_add
SaturatingAdd(a, b) == IF a > U64_MAX - b THEN U64_MAX ELSE a + b

\* Variant of CheckedAdd: the sum wraps around instead of being refused.
CheckedAdd_Wrapping(instant, duration) ==
    IF duration > INSTANT_MAX - instant
    THEN Some(instant - (INSTANT_MAX - duration) - 1)
    ELSE Some(instant + duration)

\* Instant::checked_add
CheckedAdd(instant, duration) ==
    IF duration > INSTANT_MAX - instant THEN None ELSE Some(instant + duration)

----------------------------------------------------------------------------
(* The orchestrator's methods, as functions of the record w that holds the *)
(* translator's fields, the effects it has had on its collaborators, and   *)
(* ret, the value the method returned.                                      *)

\* The translator and its collaborators as one record.
World ==
    [enabled |-> enabled,
     config |-> config,
     translation_barrier |-> translation_barrier,
     deferred_history_cells |-> deferred_history_cells,
     translation_seq |-> translation_seq,
     app_events |-> app_events,
     tasks |-> tasks,
     frames |-> frames,
     opened |-> opened,
     closed |-> closed,
     ret |-> None,
     path |-> "none"]

\* The next state of the translator and its collaborators is w.
Commit(w) ==
    /\ enabled' = w.enabled
    /\ config' = w.config
    /\ translation_barrier' = w.translation_barrier
    /\ deferred_history_cells' = w.deferred_history_cells
    /\ translation_seq' = w.translation_seq
    /\ app_events' = w.app_events
    /\ tasks' = w.tasks
    /\ frames' = w.frames
    /\ opened' = w.opened
    /\ closed' = w.closed

\* max_wait_from_env, in milliseconds
MaxWaitFromEnv ==
    IF IsSome(env)
    THEN LET parsed == ParseU64(Trim(Unwrap(env)))
         IN  IF IsSome(parsed) THEN Unwrap(parsed)
             ELSE DEFAULT_TRANSLATION_MAX_WAIT_MS
    ELSE DEFAULT_TRANSLATION_MAX_WAIT_MS

\* Variant of MaxWaitMs: the duration is read from the environment again.
MaxWaitMs_FromEnv(barrier) == MaxWaitFromEnv

\* barrier.max_wait.as_millis()
MaxWaitMs(barrier) == barrier.max_wait

\* Variant of DisplayedTranslation: the translated text as received.
DisplayedTranslation_Raw(translated, translated_body) == translated

\* if translated_body.is_empty() { translated } else { translated_body }
DisplayedTranslation(translated, translated_body) ==
    IF translated_body = << >> THEN translated ELSE translated_body

\* Variant of TranslationDisabled: the switch is not looked at.
TranslationDisabled_Ignored(w) == FALSE

\* if !self.enabled, at the head of maybe_translate_reasoning
TranslationDisabled(w) == ~w.enabled

\* Variant of ReleaseBarrier: the barrier is left in place.
ReleaseBarrier_Forgotten(w) == w

\* self.translation_barrier = None
ReleaseBarrier(w) == [w EXCEPT !.translation_barrier = None]

\* Variant of CompletionMatches: the request id is not compared.
CompletionMatches_ThreadOnly(barrier, msg) == barrier.thread_id = msg.thread_id

\* barrier.request_id != request_id || barrier.thread_id != thread_id, negated
CompletionMatches(barrier, msg) ==
    ~(barrier.request_id /= msg.request_id \/ barrier.thread_id /= msg.thread_id)

\* Variant of CompletionIsActive: the active thread is not compared.
CompletionIsActive_Unchecked(msg, active_thread_id) == TRUE

\* active_thread_id.as_ref() != Some(&thread_id), negated
CompletionIsActive(msg, active_thread_id) ==
    ~(active_thread_id /= Some(msg.thread_id))

\* Variant of DeadlineNotReached: the comparison is reversed.
DeadlineNotReached_Reversed(barrier) == now > barrier.deadline

\* Instant::now() < barrier.deadline
DeadlineNotReached(barrier) == now < barrier.deadline

\* Variant of EmitDefers: the barrier is not looked at.
EmitDefers_Never(w) == FALSE

\* self.translation_barrier.is_some() in emit_history_cell
EmitDefers(w) == IsSome(w.translation_barrier)

\* Variant of HookDefers: the barrier is not looked at.
HookDefers_Never(w) == FALSE

\* self.translation_barrier.is_some() at the head of
\* emit_history_cell_with_translation_hook
HookDefers(w) == IsSome(w.translation_barrier)

\* Variant of PopFront: pop_back.
PopFront_Back(queue) ==
    [cell |-> queue[Len(queue)], rest |-> SubSeq(queue, 1, Len(queue) - 1)]

\* self.deferred_history_cells.pop_front(), for a queue that is not empty
PopFront(queue) == [cell |-> Head(queue), rest |-> Tail(queue)]

\* Variant of FlushStops: the flush goes on.
FlushStops_Never(w) == FALSE

\* Variant of FlushStops: the flush stops after any reasoning cell.
FlushStops_Always(w) == TRUE

\* self.translation_barrier.is_some() after a flushed cell started a
\* translation: the flush stops
FlushStops(w) == IsSome(w.translation_barrier)

\* Variant of ScheduleFrameIn: no wake-up is asked for.
ScheduleFrameIn_Dropped(requested, dur) == requested

\* frame_requester.schedule_frame_in(dur)
ScheduleFrameIn(requested, dur) == Append(requested, dur)

\* Variant of BeginBarrier: an open barrier is not looked for.
BeginBarrier_Unguarded(w, thread_id, title) ==
    LET request_id == w.translation_seq
        max_wait == MaxWaitFromEnv
        sum == CheckedAdd(now, max_wait)
        deadline == IF IsSome(sum) THEN Unwrap(sum) ELSE now
    IN  [w EXCEPT
           !.translation_seq = SaturatingAdd(w.translation_seq, 1),
           !.translation_barrier =
               Some([request_id |-> request_id,
                     thread_id |-> thread_id,
                     title |-> title,
                     max_wait |-> max_wait,
                     deadline |-> deadline]),
           !.frames = ScheduleFrameIn(w.frames, max_wait),
           !.ret = Some(request_id)]

\* begin_barrier; ret is Option<u64>
BeginBarrier(w, thread_id, title) ==
    IF IsSome(w.translation_barrier) THEN [w EXCEPT !.ret = None]
    ELSE LET request_id == w.translation_seq
             max_wait == MaxWaitFromEnv
             sum == CheckedAdd(now, max_wait)
             deadline == IF IsSome(sum) THEN Unwrap(sum) ELSE now
         IN  [w EXCEPT
                !.translation_seq = SaturatingAdd(w.translation_seq, 1),
                !.translation_barrier =
                    Some([request_id |-> request_id,
                          thread_id |-> thread_id,
                          title |-> title,
                          max_wait |-> max_wait,
                          deadline |-> deadline]),
                !.frames = ScheduleFrameIn(w.frames, max_wait),
                !.ret = Some(request_id)]

\* maybe_translate_reasoning; ret is bool
MaybeTranslateReasoning(w, thread_id, full_reasoning) ==
    IF TranslationDisabled(w) THEN [w EXCEPT !.ret = FALSE]
    ELSE IF ~IsSome(thread_id) THEN [w EXCEPT !.ret = FALSE]
    ELSE LET title == ExtractFirstBold(full_reasoning)
             body == ExtractReasoningBody(full_reasoning)
         IN  IF ~IsSome(body) THEN [w EXCEPT !.ret = FALSE]
             ELSE IF Trim(Unwrap(body)) = << >> THEN [w EXCEPT !.ret = FALSE]
             ELSE LET b == BeginBarrier(w, Unwrap(thread_id), title)
                  IN  IF ~IsSome(b.ret) THEN [b EXCEPT !.ret = FALSE]
                      ELSE [b EXCEPT
                              !.tasks = b.tasks \cup
                                  {[request_id |-> Unwrap(b.ret),
                                    thread_id |-> Unwrap(thread_id),
                                    title |-> title,
                                    text |-> full_reasoning,
                                    config |-> w.config]},
                              !.ret = TRUE]

\* emit_history_cell
EmitHistoryCell(w, cell) ==
    IF EmitDefers(w)
    THEN [w EXCEPT !.deferred_history_cells = Append(w.deferred_history_cells, cell),
                   !.ret = None]
    ELSE [w EXCEPT !.app_events = Append(w.app_events, cell), !.ret = None]

\* History: when the call that led from w0 to w1 opened a barrier, records the
\* cell whose markdown was passed, the position at which that cell was sent,
\* the time of the call and the value the environment variable had.
NoteOpened(w0, w1, cell, pos) ==
    IF ~IsSome(w0.translation_barrier) /\ IsSome(w1.translation_barrier)
    THEN [w1 EXCEPT !.opened =
            Append(w1.opened,
                   [request_id |-> Unwrap(w1.translation_barrier).request_id,
                    cell |-> cell.id,
                    pos |-> pos,
                    at |-> now,
                    env |-> env])]
    ELSE w1

\* The thread of the barrier being closed, kept for the cell a flush reopens
\* a barrier for (not what the code does).
FlushThreadId_OfBarrier(w, active_thread_id) ==
    IF IsSome(translation_barrier)
    THEN Some(Unwrap(translation_barrier).thread_id)
    ELSE active_thread_id

\* The thread id a flush hands to maybe_translate_reasoning: the one the
\* flush was called with.
FlushThreadId(w, active_thread_id) == active_thread_id

RECURSIVE FlushDeferredCells(_, _)
\* flush_deferred_cells
FlushDeferredCells(w, active_thread_id) ==
    IF w.deferred_history_cells = << >> THEN [w EXCEPT !.ret = None]
    ELSE LET popped == PopFront(w.deferred_history_cells)
             cell == popped.cell
             maybe_reasoning == FullMarkdownForTranslation(cell)
             sent == [w EXCEPT
                        !.deferred_history_cells = popped.rest,
                        !.app_events = Append(w.app_events, cell)]
         IN  IF IsSome(maybe_reasoning) /\ ~IsSome(sent.translation_barrier)
             THEN LET started ==
                          NoteOpened(sent,
                                     MaybeTranslateReasoning(sent, FlushThreadId(w, active_thread_id),
                                                             Unwrap(maybe_reasoning)),
                                     cell, Len(sent.app_events))
                  IN  IF FlushStops(started)
                      THEN [started EXCEPT !.ret = None]
                      ELSE FlushDeferredCells(started, active_thread_id)
             ELSE FlushDeferredCells(sent, active_thread_id)

\* History: the barrier with request_id was closed (by a translated text, a
\* provider error or a timeout) and its cell is sent at position pos.
NoteClosed(w, request_id, by, pos) ==
    [w EXCEPT !.closed =
        Append(w.closed, [request_id |-> request_id, by |-> by, pos |-> pos])]

\* on_translation_completed; ret is needs_redraw, and path (history) names
\* the return statement taken
OnTranslationCompleted(w, msg, active_thread_id) ==
    IF ~IsSome(w.translation_barrier)
    THEN [w EXCEPT !.ret = FALSE, !.path = "no_barrier"]
    ELSE LET barrier == Unwrap(w.translation_barrier)
         IN  IF ~CompletionMatches(barrier, msg)
             THEN [w EXCEPT !.ret = FALSE, !.path = "mismatch"]
             ELSE IF ~CompletionIsActive(msg, active_thread_id)
             THEN [w EXCEPT !.ret = FALSE, !.path = "inactive"]
             ELSE LET released == ReleaseBarrier(w)
                      emitted ==
                          IF IsSome(msg.translated)
                          THEN LET translated == Unwrap(msg.translated)
                                   body == ExtractReasoningBody(translated)
                                   translated_body ==
                                       Trim(IF IsSome(body) THEN Unwrap(body)
                                            ELSE translated)
                               IN  EmitHistoryCell(
                                       NoteClosed(released, msg.request_id,
                                                  "translated",
                                                  Len(released.app_events) + 1),
                                       NewAgentReasoningTranslationBlock(
                                           None,
                                           DisplayedTranslation(
                                               translated, translated_body)))
                          ELSE LET reason ==
                                       IF IsSome(msg.error) THEN Unwrap(msg.error)
                                       ELSE <<"u", "n", "k", "n", "o", "w", "n", " ",
                                              "e", "r", "r", "o", "r">>
                               IN  EmitHistoryCell(
                                       NoteClosed(released, msg.request_id, "error",
                                                  Len(released.app_events) + 1),
                                       NewAgentReasoningTranslationErrorBlock(
                                           msg.title, reason))
                      flushed == FlushDeferredCells(emitted, active_thread_id)
                  IN  [flushed EXCEPT !.ret = TRUE, !.path = "resolved"]

\* Variant of MaybeFlushTimeout: a barrier of a thread that is not the active
\* one is left alone.
MaybeFlushTimeout_ActiveOnly(w, active_thread_id) ==
    IF ~w.enabled THEN [w EXCEPT !.ret = FALSE]
    ELSE IF ~IsSome(w.translation_barrier) THEN [w EXCEPT !.ret = FALSE]
    ELSE LET barrier == Unwrap(w.translation_barrier)
         IN  IF DeadlineNotReached(barrier) THEN [w EXCEPT !.ret = FALSE]
             ELSE IF active_thread_id /= Some(barrier.thread_id)
             THEN [w EXCEPT !.ret = FALSE]
             ELSE LET title == barrier.title
                      max_wait_ms == MaxWaitMs(barrier)
                      released == ReleaseBarrier(w)
                      emitted ==
                          EmitHistoryCell(
                              NoteClosed(released, barrier.request_id, "timeout",
                                         Len(released.app_events) + 1),
                              NewAgentReasoningTranslationErrorBlock(
                                  title, TimeoutMessage(max_wait_ms)))
                      flushed == FlushDeferredCells(emitted, active_thread_id)
                  IN  [flushed EXCEPT !.ret = TRUE]

\* maybe_flush_timeout; ret is bool
MaybeFlushTimeout(w, active_thread_id) ==
    IF ~w.enabled THEN [w EXCEPT !.ret = FALSE]
    ELSE IF ~IsSome(w.translation_barrier) THEN [w EXCEPT !.ret = FALSE]
    ELSE LET barrier == Unwrap(w.translation_barrier)
         IN  IF DeadlineNotReached(barrier) THEN [w EXCEPT !.ret = FALSE]
             ELSE LET title == barrier.title
                      max_wait_ms == MaxWaitMs(barrier)
                      released == ReleaseBarrier(w)
                      emitted ==
                          EmitHistoryCell(
                              NoteClosed(released, barrier.request_id, "timeout",
                                         Len(released.app_events) + 1),
                              NewAgentReasoningTranslationErrorBlock(
                                  title, TimeoutMessage(max_wait_ms)))
                      flushed == FlushDeferredCells(emitted, active_thread_id)
                  IN  [flushed EXCEPT !.ret = TRUE]

\* emit_history_cell_with_translation_hook
EmitHistoryCellWithTranslationHook(w, active_thread_id, cell) ==
    IF HookDefers(w)
    THEN [w EXCEPT !.deferred_history_cells = Append(w.deferred_history_cells, cell),
                   !.ret = None]
    ELSE LET maybe_reasoning == FullMarkdownForTranslation(cell)
             sent == [w EXCEPT !.app_events = Append(w.app_events, cell)]
         IN  IF IsSome(maybe_reasoning)
             THEN [NoteOpened(sent,
                              MaybeTranslateReasoning(sent, active_thread_id,
                                                      Unwrap(maybe_reasoning)),
                              cell, Len(sent.app_events))
                   EXCEPT !.ret = None]
             ELSE [sent EXCEPT !.ret = None]

\* update_config
UpdateConfig(w, new_config) ==
    [w EXCEPT !.enabled = new_config.enabled, !.config = new_config, !.ret = None]

\* set_enabled
SetEnabled(w, value) ==
    [w EXCEPT !.enabled = value, !.config = [w.config EXCEPT !.enabled = value],
              !.ret = None]

----------------------------------------------------------------------------
(* The state machine.                                                      *)

\* The value of tick while no tick is running.
NoTick ==
    [active_thread_id |-> None, needs_redraw |-> FALSE, log |-> << >>, entered |-> 0]

\* The value of split while the splitter is not under study.
NoSplit == [text |-> << >>, title |-> None, body |-> None]

\* ReasoningTranslator::from_config, with the process at its start.
Init ==
    /\ enabled \in BOOLEAN
    /\ config = [enabled |-> enabled]
    /\ translation_barrier = None
    /\ deferred_history_cells = << >>
    /\ translation_seq = 0
    /\ results = << >>
    /\ app_events = << >>
    /\ tasks = {}
    /\ frames = << >>
    /\ task_frames = 0
    /\ now = 0
    /\ env \in EnvValues
    /\ pc = "idle"
    /\ tick = NoTick
    /\ intercepted = << >>
    /\ opened = << >>
    /\ closed = << >>
    /\ call = None
    /\ split = NoSplit
    /\ woken = 0

\* The host calls emit_history_cell with a new cell.
CallEmitHistoryCell ==
    /\ pc = "idle"
    /\ Len(intercepted) < MaxItems
    /\ \E cell \in HostCells(Len(intercepted) + 1) :
          /\ Commit(EmitHistoryCell(World, cell))
          /\ intercepted' = Append(intercepted, cell)
    /\ UNCHANGED <<call, split, woken, results, task_frames, now, env, pc, tick>>

\* The host calls emit_history_cell_with_translation_hook with a new cell.
CallEmitHistoryCellWithTranslationHook ==
    /\ pc = "idle"
    /\ Len(intercepted) < MaxItems
    /\ \E cell \in HostCells(Len(intercepted) + 1), active \in HookThreadIds :
          /\ Commit(EmitHistoryCellWithTranslationHook(World, active, cell))
          /\ intercepted' = Append(intercepted, cell)
    /\ UNCHANGED <<call, split, woken, results, task_frames, now, env, pc, tick>>

\* The host calls update_config.
CallUpdateConfig ==
    /\ pc = "idle"
    /\ \E e \in BOOLEAN : Commit(UpdateConfig(World, [enabled |-> e]))
    /\ UNCHANGED <<call, split, woken, results, task_frames, now, env, pc, tick, intercepted>>

\* The host calls set_enabled.
CallSetEnabled ==
    /\ pc = "idle"
    /\ \E e \in BOOLEAN : Commit(SetEnabled(World, e))
    /\ UNCHANGED <<call, split, woken, results, task_frames, now, env, pc, tick, intercepted>>

\* Variant of CallOnDrawTick: the switch is not looked at.
CallOnDrawTick_AlwaysDrains ==
    /\ pc = "idle"
    /\ \E active \in ActiveThreadIds :
          /\ pc' = "drain"
          /\ tick' = [active_thread_id |-> active, needs_redraw |-> FALSE,
                      log |-> << >>, entered |-> now]
    /\ Commit(World)
    /\ UNCHANGED <<call, split, woken, results, task_frames, now, env, intercepted>>

\* The host calls on_draw_tick: the call returns at once when disabled and
\* otherwise calls drain_results.
CallOnDrawTick ==
    /\ pc = "idle"
    /\ \E active \in ActiveThreadIds :
          IF ~enabled
          THEN /\ pc' = "return"
               /\ tick' = [NoTick EXCEPT !.entered = now]
          ELSE /\ pc' = "drain"
               /\ tick' = [active_thread_id |-> active, needs_redraw |-> FALSE,
                           log |-> << >>, entered |-> now]
    /\ Commit(World)
    /\ UNCHANGED <<call, split, woken, results, task_frames, now, env, intercepted>>

\* on_draw_tick returns needs_redraw = false because translation is disabled.
TickReturnDisabled ==
    /\ pc = "return"
    /\ pc' = "idle"
    /\ tick' = NoTick
    /\ Commit(World)
    /\ UNCHANGED <<call, split, woken, results, task_frames, now, env, intercepted>>

\* Variant of DrainReceive: needs_redraw is that of the message received
\* last (not what the code does).
DrainReceive_LastWins ==
    /\ pc = "drain"
    /\ results /= << >>
    /\ LET w == OnTranslationCompleted(World, Head(results), tick.active_thread_id)
       IN  /\ Commit(w)
           /\ tick' = [tick EXCEPT !.needs_redraw = w.ret,
                                   !.log = Append(tick.log, w.path)]
    /\ results' = Tail(results)
    /\ UNCHANGED <<call, split, woken, task_frames, now, env, pc, intercepted>>

\* Variant of DrainReceive: the message sent last is received first.
DrainReceive_NewestFirst ==
    /\ pc = "drain"
    /\ results /= << >>
    /\ LET w == OnTranslationCompleted(World, results[Len(results)],
                                       tick.active_thread_id)
       IN  /\ Commit(w)
           /\ tick' = [tick EXCEPT !.needs_redraw = tick.needs_redraw \/ w.ret,
                                   !.log = Append(tick.log, w.path)]
    /\ results' = SubSeq(results, 1, Len(results) - 1)
    /\ UNCHANGED <<call, split, woken, task_frames, now, env, pc, intercepted>>

\* One turn of the loop of drain_results that receives a message.
DrainReceive ==
    /\ pc = "drain"
    /\ results /= << >>
    /\ LET w == OnTranslationCompleted(World, Head(results), tick.active_thread_id)
       IN  /\ Commit(w)
           /\ tick' = [tick EXCEPT !.needs_redraw = tick.needs_redraw \/ w.ret,
                                   !.log = Append(tick.log, w.path)]
    /\ results' = Tail(results)
    /\ UNCHANGED <<call, split, woken, task_frames, now, env, pc, intercepted>>

\* The loop of drain_results finds the channel empty and drain_results
\* returns to on_draw_tick.
DrainEmpty ==
    /\ pc = "drain"
    /\ results = << >>
    /\ pc' = "timeout"
    /\ Commit(World)
    /\ UNCHANGED <<call, split, woken, results, task_frames, now, env, tick, intercepted>>

\* on_draw_tick calls maybe_flush_timeout and returns.
TickFlushTimeout ==
    /\ pc = "timeout"
    /\ LET w == MaybeFlushTimeout(World, tick.active_thread_id)
       IN  Commit(w)
    /\ pc' = "idle"
    /\ tick' = NoTick
    /\ UNCHANGED <<call, split, woken, results, task_frames, now, env, intercepted>>

\* Variant of TaskMessage: the translated text is set on failure too.
TaskMessage_BothSet(t, outcome) ==
    [request_id |-> t.request_id,
     thread_id |-> t.thread_id,
     title |-> t.title,
     translated |-> Some(outcome.text),
     error |-> IF outcome.ok THEN None ELSE Some(outcome.text)]

\* The message a task builds from the result of do_translate:
\* TranslationResult::new(request_id, thread_id, title, Some(translated), None)
\* or TranslationResult::new(request_id, thread_id, title, None, Some(e))
TaskMessage(t, outcome) ==
    [request_id |-> t.request_id,
     thread_id |-> t.thread_id,
     title |-> t.title,
     translated |-> IF outcome.ok THEN Some(outcome.text) ELSE None,
     error |-> IF outcome.ok THEN None ELSE Some(outcome.text)]

\* A spawned task finishes do_translate, sends its one message and asks for a
\* frame.
TaskSend ==
    \E t \in tasks, outcome \in TranslateOutcomes :
        /\ results' = Append(results, TaskMessage(t, outcome))
        /\ tasks' = tasks \ {t}
        /\ task_frames' = task_frames + 1
        /\ UNCHANGED <<call, split, woken, enabled, config, translation_barrier, deferred_history_cells,
                       translation_seq, app_events, frames, now, env, pc, tick,
                       intercepted, opened, closed>>

\* Time passes. Only the comparison of now with the deadline of the open
\* barrier is ever made, so the clock moves from before the deadline to it.
AdvanceClock ==
    /\ IsSome(translation_barrier)
    /\ now < Unwrap(translation_barrier).deadline
    /\ now' = Unwrap(translation_barrier).deadline
    /\ UNCHANGED <<call, split, woken, enabled, config, translation_barrier, deferred_history_cells,
                   translation_seq, results, app_events, tasks, frames,
                   task_frames, env, pc, tick, intercepted, opened, closed>>

Next ==
    \/ CallEmitHistoryCell
    \/ CallEmitHistoryCellWithTranslationHook
    \/ CallUpdateConfig
    \/ CallSetEnabled
    \/ CallOnDrawTick
    \/ TickReturnDisabled
    \/ DrainReceive
    \/ DrainEmpty
    \/ TickFlushTimeout
    \/ TaskSend
    \/ AdvanceClock

Spec == Init /\ [][Next]_vars

\* A translator that is fresh, or has opened and closed U64_MAX - 1 barriers
\* since from_config, so that its counter is two openings away from the
\* largest u64; the history variables record what happens from then on.
InitNearSaturation ==
    /\ enabled = TRUE
    /\ config = [enabled |-> enabled]
    /\ translation_barrier = None
    /\ deferred_history_cells = << >>
    /\ translation_seq \in {0, U64_MAX - 1}
    /\ results = << >>
    /\ app_events = << >>
    /\ tasks = {}
    /\ frames = << >>
    /\ task_frames = 0
    /\ now = 0
    /\ env = None
    /\ pc = "idle"
    /\ tick = NoTick
    /\ intercepted = << >>
    /\ opened = << >>
    /\ closed = << >>
    /\ call = None
    /\ split = NoSplit
    /\ woken = 0

SaturationSpec == InitNearSaturation /\ [][Next]_vars

----------------------------------------------------------------------------
(* The host calling maybe_translate_reasoning itself, next to the other    *)
(* entry points.                                                           *)

\* The host calls maybe_translate_reasoning and the call returns.
CallMaybeTranslateReasoning ==
    /\ pc = "idle"
    /\ Len(opened) < MaxCalls
    /\ \E thread_id \in HookThreadIds, full_reasoning \in ReasoningTexts :
          LET w == NoteOpened(World,
                              MaybeTranslateReasoning(World, thread_id, full_reasoning),
                              [id |-> 0], Len(app_events))
          IN  /\ Commit(w)
              /\ call' = Some([thread_id |-> thread_id,
                               full_reasoning |-> full_reasoning,
                               ret |-> w.ret])
    /\ pc' = "called"
    /\ UNCHANGED <<results, task_frames, now, env, tick, intercepted, split, woken>>

\* The host has looked at the returned value and goes on.
ReturnMaybeTranslateReasoning ==
    /\ pc = "called"
    /\ pc' = "idle"
    /\ call' = None
    /\ UNCHANGED <<enabled, config, translation_barrier, deferred_history_cells,
                   translation_seq, results, app_events, tasks, frames,
                   task_frames, now, env, tick, intercepted, opened, closed,
                   split, woken>>

\* The runs in which the provider has not answered yet: what it answers plays
\* no part in maybe_translate_reasoning, which never reads the channel, so the
\* tasks dispatched stay in flight and barriers are closed by timeout.
NextDirect ==
    \/ CallMaybeTranslateReasoning
    \/ ReturnMaybeTranslateReasoning
    \/ CallEmitHistoryCell
    \/ CallSetEnabled
    \/ CallOnDrawTick
    \/ TickReturnDisabled
    \/ DrainEmpty
    \/ TickFlushTimeout
    \/ AdvanceClock

DirectSpec == Init /\ [][NextDirect]_vars

----------------------------------------------------------------------------
(* The environment variable and the clock: the variable is set and unset   *)
(* while the translator runs, and the process may be so old that adding a  *)
(* duration to Instant::now() overflows.                                   *)

\* The values of CODEX_TUI_TRANSLATION_MAX_WAIT_MS: unset, a number between
\* spaces, a text that is no number, and a number above the largest u64.
EnvOverrides ==
    {None, Some(<<" ", "1">>), Some(<<"x">>),
     Some(<<"9", "9", "9", "9", "9", "9", "9", "9", "9", "9">>)}

\* An enabled translator in a process that has just started or whose clock is
\* one millisecond away from the largest Instant.
InitClock ==
    /\ enabled = TRUE
    /\ config = [enabled |-> enabled]
    /\ translation_barrier = None
    /\ deferred_history_cells = << >>
    /\ translation_seq = 0
    /\ results = << >>
    /\ app_events = << >>
    /\ tasks = {}
    /\ frames = << >>
    /\ task_frames = 0
    /\ now \in {0, INSTANT_MAX - 1}
    /\ env \in EnvOverrides
    /\ pc = "idle"
    /\ tick = NoTick
    /\ intercepted = << >>
    /\ opened = << >>
    /\ closed = << >>
    /\ call = None
    /\ split = NoSplit
    /\ woken = 0

\* The variable is given another value, or removed, by the process or by one
\* of its threads; std::env::var reads the new value from then on.
SetEnv ==
    /\ env' \in EnvOverrides \ {env}
    /\ UNCHANGED <<enabled, config, translation_barrier, deferred_history_cells,
                   translation_seq, results, app_events, tasks, frames,
                   task_frames, now, pc, tick, intercepted, opened, closed,
                   call, split, woken>>

\* The runs in which the provider does not answer, so that every barrier is
\* closed by its timeout.
NextEnv ==
    \/ SetEnv
    \/ CallEmitHistoryCellWithTranslationHook
    \/ CallOnDrawTick
    \/ DrainEmpty
    \/ TickFlushTimeout
    \/ AdvanceClock

EnvSpec == InitClock /\ [][NextEnv]_vars

----------------------------------------------------------------------------
(* The intercept entry points with the arguments of the call on record.    *)

\* The host calls emit_history_cell_with_translation_hook with a new cell and
\* the call returns; the thread id it passed is kept in call.
CallHookWithThreadId ==
    /\ pc = "idle"
    /\ Len(intercepted) < MaxItems
    /\ \E cell \in HostCells(Len(intercepted) + 1), active \in HookThreadIds :
          /\ Commit(EmitHistoryCellWithTranslationHook(World, active, cell))
          /\ intercepted' = Append(intercepted, cell)
          /\ call' = Some([thread_id |-> active,
                           full_reasoning |-> FullMarkdownForTranslation(cell),
                           ret |-> None])
    /\ pc' = "called"
    /\ UNCHANGED <<split, woken, results, task_frames, now, env, tick>>

\* The host sends its cells through the two intercept entry points, and the
\* rest goes as in Next.
NextIntercept ==
    \/ CallHookWithThreadId
    \/ ReturnMaybeTranslateReasoning
    \/ CallEmitHistoryCell
    \/ CallSetEnabled
    \/ CallOnDrawTick
    \/ TickReturnDisabled
    \/ DrainReceive
    \/ DrainEmpty
    \/ TickFlushTimeout
    \/ TaskSend
    \/ AdvanceClock

InterceptSpec == Init /\ [][NextIntercept]_vars

----------------------------------------------------------------------------
(* A host loop that draws only when it was asked to: every wake-up asked   *)
(* for through schedule_frame_in is answered, once its delay has passed,   *)
(* with a draw, and the draw calls on_draw_tick.                           *)

\* The time at which the k-th wake-up asked for is due: the time of the
\* request plus the delay.
WakeUpDue(k) == opened[k].at + frames[k]

\* The host loop answers the oldest wake-up not answered yet, which is due,
\* with a draw: on_draw_tick is called as in CallOnDrawTick.
HostWakeTick ==
    /\ pc = "idle"
    /\ woken < Len(frames)
    /\ frames[woken + 1] <= INSTANT_MAX - opened[woken + 1].at
    /\ now >= WakeUpDue(woken + 1)
    /\ woken' = woken + 1
    /\ \E active \in ActiveThreadIds :
          IF ~enabled
          THEN /\ pc' = "return"
               /\ tick' = [NoTick EXCEPT !.entered = now]
          ELSE /\ pc' = "drain"
               /\ tick' = [active_thread_id |-> active, needs_redraw |-> FALSE,
                           log |-> << >>, entered |-> now]
    /\ Commit(World)
    /\ UNCHANGED <<call, split, results, task_frames, now, env, intercepted>>

\* The runs in which no completion ever arrives and nothing but the wake-ups
\* makes the host draw.
NextWake ==
    \/ CallEmitHistoryCellWithTranslationHook
    \/ CallSetEnabled
    \/ HostWakeTick
    \/ TickReturnDisabled
    \/ DrainEmpty
    \/ TickFlushTimeout
    \/ AdvanceClock

\* Time passes, the host loop answers the wake-ups that are due, and a tick
\* that has begun runs to its end.
WakeUpsAreAnswered ==
    /\ WF_vars(AdvanceClock)
    /\ WF_vars(HostWakeTick)
    /\ WF_vars(DrainEmpty)
    /\ WF_pc(pc \in {"timeout", "return"} /\ pc' = "idle")

WakeSpec == Init /\ [][NextWake]_vars /\ WakeUpsAreAnswered

----------------------------------------------------------------------------
(* The texts a provider answers with.                                      *)

\* "z\n": a translation without markup that ends with a line break.
TranslatedPadded == <<"z", "\n">>

\* " ": a translation of whitespace only.
TranslatedBlank == <<" ">>

\* What do_translate resolves to, with and without a title, a body and
\* whitespace around the text.
ProviderOutcomes ==
    {[ok |-> TRUE, text |-> t] :
        t \in {TranslatedWithTitle, TranslatedRaw, TranslatedPadded,
               TranslatedBlank, TextTitleOnly}}
    \cup {[ok |-> FALSE, text |-> <<"b", "a", "d">>]}

\* A spawned task finishes do_translate with one of these answers, sends its
\* one message and asks for a frame.
TaskSendAnswer ==
    \E t \in tasks, outcome \in ProviderOutcomes :
        /\ results' = Append(results, TaskMessage(t, outcome))
        /\ tasks' = tasks \ {t}
        /\ task_frames' = task_frames + 1
        /\ UNCHANGED <<call, split, woken, enabled, config, translation_barrier,
                       deferred_history_cells, translation_seq, app_events,
                       frames, now, env, pc, tick, intercepted, opened, closed>>

\* The runs in which the clock stays below every deadline, so that barriers
\* are closed by completions only.
NextAnswer ==
    \/ CallEmitHistoryCellWithTranslationHook
    \/ TaskSendAnswer
    \/ CallOnDrawTick
    \/ TickReturnDisabled
    \/ DrainReceive
    \/ DrainEmpty
    \/ TickFlushTimeout

AnswerSpec == Init /\ [][NextAnswer]_vars

----------------------------------------------------------------------------
(* The splitter on its own: extract_first_bold and extract_reasoning_body  *)
(* applied to one text.                                                    *)

\* The characters of the texts: the delimiter's character, a whitespace
\* character and a letter.
SplitChars == {"*", " ", "a"}

\* The texts (&str) of at most MaxLen characters.
SplitTexts == UNION {[1..n -> SplitChars] : n \in 0..MaxLen}

\* A text is chosen; neither function has been applied to it yet.
InitSplit ==
    /\ enabled = TRUE
    /\ config = [enabled |-> enabled]
    /\ translation_barrier = None
    /\ deferred_history_cells = << >>
    /\ translation_seq = 0
    /\ results = << >>
    /\ app_events = << >>
    /\ tasks = {}
    /\ frames = << >>
    /\ task_frames = 0
    /\ now = 0
    /\ env = None
    /\ pc = "idle"
    /\ tick = NoTick
    /\ intercepted = << >>
    /\ opened = << >>
    /\ closed = << >>
    /\ call = None
    /\ split \in {[text |-> s, title |-> None, body |-> None] : s \in SplitTexts}
    /\ woken = 0

\* extract_first_bold(&text) is called and returns.
ApplyExtractFirstBold ==
    /\ ~IsSome(split.title)
    /\ split' = [split EXCEPT !.title = Some(ExtractFirstBold(split.text))]
    /\ UNCHANGED <<enabled, config, translation_barrier, deferred_history_cells,
                   translation_seq, results, app_events, tasks, frames,
                   task_frames, now, env, pc, tick, intercepted, opened, closed,
                   call, woken>>

\* extract_reasoning_body(&text) is called and returns.
ApplyExtractReasoningBody ==
    /\ ~IsSome(split.body)
    /\ split' = [split EXCEPT !.body = Some(ExtractReasoningBody(split.text))]
    /\ UNCHANGED <<enabled, config, translation_barrier, deferred_history_cells,
                   translation_seq, results, app_events, tasks, frames,
                   task_frames, now, env, pc, tick, intercepted, opened, closed,
                   call, woken>>

NextSplit ==
    \/ ApplyExtractFirstBold
    \/ ApplyExtractReasoningBody

SplitSpec == InitSplit /\ [][NextSplit]_vars

----------------------------------------------------------------------------
(* Vocabulary of the properties.                                           *)

\* The cell is an enrichment item: a translation block or an error block.
IsEnrichment(cell) == cell.kind \in {"translation", "translation_error"}

\* The positions of a sequence of cells that hold stream items.
StreamPositions(cells) == {k \in 1..Len(cells) : ~IsEnrichment(cells[k])}

\* The stream items of a sequence of cells, in order.
StreamItems(cells) == SelectSeq(cells, LAMBDA c : ~IsEnrichment(c))

\* The cell carries markdown with a body, so that it opens a barrier when it
\* is sent with translation enabled, a thread id and no barrier open.
IsEligible(cell) ==
    /\ IsSome(FullMarkdownForTranslation(cell))
    /\ IsSome(ExtractReasoningBody(Unwrap(FullMarkdownForTranslation(cell))))

\* This step hands a new cell to one of the two intercept entry points.
InterceptStep == intercepted' /= intercepted

\* This step closes the open barrier.
ClosingStep == Len(closed') = Len(closed) + 1

\* This step is one turn of the drain loop that receives a message.
ReceiveStep == pc = "drain" /\ results /= << >> /\ results' = Tail(results)

\* This step is the return of on_draw_tick.
TickReturnStep == pc \in {"timeout", "return"} /\ pc' = "idle"

\* The barrier that is open (only used where one is).
Barrier == Unwrap(translation_barrier)

----------------------------------------------------------------------------
(* Properties.                                                             *)

\* C1: whenever a barrier opened for item X is closed (by a translation, a
\* provider error or a timeout), the enrichment item of that closure sits in
\* the output directly after X, and every item intercepted after X sits
\* after that enrichment item.
C1_EnrichmentDirectlyAfterItem ==
    /\ Len(closed) <= Len(opened)
    /\ \A i \in 1..Len(closed) :
          LET c == closed[i]
              o == opened[i]
          IN  /\ c.request_id = o.request_id
              /\ c.pos <= Len(app_events)
              /\ ~IsEnrichment(app_events[o.pos])
              /\ app_events[o.pos].id = o.cell
              /\ c.pos = o.pos + 1
              /\ IsEnrichment(app_events[c.pos])
              /\ \A k \in StreamPositions(app_events) :
                    app_events[k].id > o.cell => k > c.pos

\* C1 witness: a barrier was closed after cells had been deferred behind it,
\* and those cells are in the output by now.
C1_Witness ==
    /\ Len(closed) >= 1
    /\ \E k \in StreamPositions(app_events) : k > closed[1].pos

\* C2: the stream items of the output are, in order and without repetition,
\* the cells intercepted first.
C2_StreamOrderPreserved ==
    /\ Len(StreamItems(app_events)) <= Len(intercepted)
    /\ StreamItems(app_events) =
           SubSeq(intercepted, 1, Len(StreamItems(app_events)))

\* C2 witness: three cells went through the deferred queue into the output
\* behind a closed barrier.
C2_Witness ==
    /\ Len(StreamItems(app_events)) >= 3
    /\ Len(closed) >= 1
    /\ closed[1].pos = 2

\* C3: at most one barrier is open at any time, and an eligible cell
\* intercepted while a barrier is open is pushed onto the deferred queue,
\* opens no second barrier and dispatches no task.
C3_AtMostOneBarrier ==
    /\ [](Len(opened) - Len(closed) = IF IsSome(translation_barrier) THEN 1 ELSE 0)
    /\ [][(InterceptStep /\ IsSome(translation_barrier)
              /\ IsEligible(intercepted'[Len(intercepted')]))
          => /\ deferred_history_cells' =
                    Append(deferred_history_cells, intercepted'[Len(intercepted')])
             /\ translation_barrier' = translation_barrier
             /\ opened' = opened
             /\ tasks' = tasks
             /\ frames' = frames]_vars

\* C3 witness: an eligible cell waits in the deferred queue behind the open
\* barrier of an earlier cell.
C3_Witness ==
    /\ IsSome(translation_barrier)
    /\ \E k \in 1..Len(deferred_history_cells) :
          IsEligible(deferred_history_cells[k])

\* C4: while a barrier stays open nothing reaches the output, and an
\* intercept made with a barrier open only appends the cell to the tail of
\* the deferred queue: output, barrier and sequence counter are unchanged.
C4_InterceptDefersWhileOpen ==
    /\ [][(IsSome(translation_barrier) /\ translation_barrier' = translation_barrier)
          => app_events' = app_events]_vars
    /\ [][(InterceptStep /\ IsSome(translation_barrier))
          => /\ deferred_history_cells' =
                    Append(deferred_history_cells, intercepted'[Len(intercepted')])
             /\ app_events' = app_events
             /\ translation_barrier' = translation_barrier
             /\ translation_seq' = translation_seq]_vars

\* C4 witness: a plain cell and a reasoning cell were both deferred behind an
\* open barrier.
C4_Witness ==
    /\ IsSome(translation_barrier)
    /\ \E j, k \in 1..Len(deferred_history_cells) :
          /\ deferred_history_cells[j].kind = "plain"
          /\ deferred_history_cells[k].kind = "reasoning"

\* The message at the head of the channel belongs to the open barrier.
HeadMatchesBarrier ==
    /\ IsSome(translation_barrier)
    /\ Head(results).request_id = Barrier.request_id
    /\ Head(results).thread_id = Barrier.thread_id

\* C5: a message drained when no barrier is open, or whose request id or
\* thread id differs from the open barrier's, changes nothing but the
\* channel: output, barrier, deferred queue and sequence counter stay.
C5_StaleCompletionIgnored ==
    [][(ReceiveStep /\ ~HeadMatchesBarrier)
       => UNCHANGED <<app_events, translation_barrier, deferred_history_cells,
                      translation_seq, tasks, frames, opened, closed, enabled,
                      config>>]_vars

\* C5 witness: the running tick has received the message of a barrier that
\* had timed out, while the barrier of a later cell was open.
C5_Witness ==
    /\ \E i \in 1..Len(tick.log) : tick.log[i] = "mismatch"
    /\ \E j \in 1..Len(closed) : closed[j].by = "timeout"

\* C6: a message that matches the open barrier but whose thread id is not the
\* active thread id of the tick (or there is none) is dropped: nothing is
\* emitted, the barrier stays open, the deferred queue is unchanged, and the
\* message is gone from the channel and never enters it again.
C6_InactiveCompletionDropped ==
    /\ [][(ReceiveStep /\ HeadMatchesBarrier
              /\ tick.active_thread_id /= Some(Head(results).thread_id))
          => /\ UNCHANGED <<app_events, translation_barrier,
                            deferred_history_cells, translation_seq, closed>>
             /\ \A k \in 1..Len(results') :
                   results'[k].request_id /= Head(results).request_id]_vars
    /\ [][\A k \in 1..Len(results') :
             \/ \E j \in 1..Len(results) :
                   results[j].request_id = results'[k].request_id
             \/ \E t \in tasks : t.request_id = results'[k].request_id]_vars

\* C6 witness: the running tick has dropped a message of the open barrier
\* because another thread, or none, was active.
C6_Witness ==
    /\ \E i \in 1..Len(tick.log) : tick.log[i] = "inactive"
    /\ IsSome(translation_barrier)

\* The open barrier has reached its deadline.
BarrierExpired == IsSome(translation_barrier) /\ now >= Barrier.deadline

\* The open barrier had reached its deadline when the running tick began.
BarrierExpiredAtEntry ==
    IsSome(translation_barrier) /\ tick.entered >= Barrier.deadline

\* This step closes the open barrier by timeout: it sends one error block
\* with the barrier's title and the timeout message naming its max wait, and
\* leaves the deferred queue flushed (empty, or behind a new barrier).
TimeoutClosure ==
    /\ closed' = Append(closed, [request_id |-> Barrier.request_id,
                                 by |-> "timeout",
                                 pos |-> Len(app_events) + 1])
    /\ Len(app_events') > Len(app_events)
    /\ SubSeq(app_events', 1, Len(app_events)) = app_events
    /\ app_events'[Len(app_events) + 1] =
           NewAgentReasoningTranslationErrorBlock(
               Barrier.title, TimeoutMessage(Barrier.max_wait))
    /\ \A k \in (Len(app_events) + 2)..Len(app_events') :
          ~IsEnrichment(app_events'[k])
    /\ translation_barrier' /= translation_barrier
    /\ deferred_history_cells' = << >> \/ IsSome(translation_barrier')
    /\ \A i \in 1..Len(closed) : closed[i].request_id /= Barrier.request_id

\* C7: a tick that began at or after the deadline of the barrier that is
\* open when the tick comes to its end (no matching completion resolved it)
\* has closed that barrier by the time it returns, sent exactly one error block carrying the barrier's title and a
\* timeout message with its max wait in milliseconds, and flushed the queue.
C7_TickAtDeadlineClosesBarrier ==
    [][(TickReturnStep /\ BarrierExpiredAtEntry) => TimeoutClosure]_vars

\* The first position of the deferred queue that holds an eligible cell, or
\* 0 when there is none.
FirstEligible ==
    LET at == {k \in 1..Len(deferred_history_cells) :
                  IsEligible(deferred_history_cells[k])}
    IN  IF at = {} THEN 0 ELSE CHOOSE k \in at : \A j \in at : k <= j

\* This step sends one enrichment item, then the first n cells of the
\* deferred queue in order, and keeps the rest of the queue.
EmitsEnrichmentThenFirst(n) ==
    /\ Len(app_events') = Len(app_events) + 1 + n
    /\ SubSeq(app_events', 1, Len(app_events)) = app_events
    /\ IsEnrichment(app_events'[Len(app_events) + 1])
    /\ SubSeq(app_events', Len(app_events) + 2, Len(app_events')) =
           SubSeq(deferred_history_cells, 1, n)
    /\ deferred_history_cells' =
           SubSeq(deferred_history_cells, n + 1, Len(deferred_history_cells))

\* This step opens a new barrier for the cell with the given identity.
ReopensFor(cell) ==
    /\ IsSome(translation_barrier')
    /\ Len(opened') = Len(opened) + 1
    /\ opened'[Len(opened')].cell = cell.id
    /\ opened'[Len(opened')].request_id = Unwrap(translation_barrier').request_id
    /\ Unwrap(translation_barrier').request_id /= Barrier.request_id

\* C8 as stated: with eligible B and then non-eligible C at the head of the
\* deferred queue, every closure of the open barrier sends the enrichment
\* item, then B, reopens the barrier for B and leaves C queued.
C8_FlushAlwaysReopens ==
    [][(ClosingStep /\ Len(deferred_history_cells) >= 2
           /\ IsEligible(deferred_history_cells[1])
           /\ ~IsEligible(deferred_history_cells[2]))
       => /\ EmitsEnrichmentThenFirst(1)
          /\ ReopensFor(deferred_history_cells[1])]_vars

\* C8, amended: a closure made by a tick that was given an active thread id
\* sends the enrichment item and then the queued cells in FIFO order up to
\* and including the first eligible one, reopens the barrier for that cell
\* and keeps the cells behind it queued for as long as that barrier is open;
\* with no eligible cell queued, or no active thread id, the whole queue is
\* sent and no barrier opens.
C8_FlushStopsAtFirstReopen ==
    /\ [][ClosingStep
          => IF IsSome(tick.active_thread_id) /\ FirstEligible > 0
             THEN /\ EmitsEnrichmentThenFirst(FirstEligible)
                  /\ ReopensFor(deferred_history_cells[FirstEligible])
             ELSE /\ EmitsEnrichmentThenFirst(Len(deferred_history_cells))
                  /\ translation_barrier' = None]_vars
    /\ [][(IsSome(translation_barrier) /\ translation_barrier' = translation_barrier)
          => /\ Len(deferred_history_cells') >= Len(deferred_history_cells)
             /\ SubSeq(deferred_history_cells', 1, Len(deferred_history_cells)) =
                    deferred_history_cells]_vars

\* C8 witness: A, its enrichment item and B are in the output, the barrier
\* of B is open and the non-eligible C is still queued.
C8_Witness ==
    /\ Len(app_events) = 3
    /\ IsEligible(app_events[1])
    /\ IsEnrichment(app_events[2])
    /\ IsEligible(app_events[3])
    /\ IsSome(translation_barrier)
    /\ Len(opened) = 2
    /\ opened[2].cell = app_events[3].id
    /\ Len(deferred_history_cells) = 1
    /\ ~IsEligible(deferred_history_cells[1])

\* C9: the open barrier goes away only in a step that receives a message
\* with its request id and thread id, or in the timeout check of a tick at or
\* after its deadline.
C9_ClosedOnlyByCompletionOrTimeout ==
    [][(IsSome(translation_barrier) /\ translation_barrier' /= translation_barrier)
       => \/ ReceiveStep /\ HeadMatchesBarrier
          \/ pc = "timeout" /\ BarrierExpired]_vars

\* C9 witness: one barrier was closed by timeout and another by a message.
C9_Witness ==
    /\ \E i \in 1..Len(closed) : closed[i].by = "timeout"
    /\ \E j \in 1..Len(closed) : closed[j].by = "translated"

ReconfigureStep == enabled' /= enabled \/ config' /= config

\* C11: a reconfiguration call made while a barrier is open leaves the
\* barrier with its deadline, the deferred queue, the sequence counter, the
\* channel and the tasks as they are, and whatever value the enabled flag has
\* been given, the tick that begins at or after the deadline of the barrier
\* that is open at its end closes that barrier by timeout and flushes the queue.
C11_ReconfigurationKeepsBarrierRunning ==
    /\ [][(ReconfigureStep /\ IsSome(translation_barrier))
          => UNCHANGED <<translation_barrier, deferred_history_cells,
                         translation_seq, results, tasks, app_events, frames>>]_vars
    /\ [][\A flag \in BOOLEAN :
             (TickReturnStep /\ BarrierExpiredAtEntry /\ enabled = flag)
             => TimeoutClosure]_vars

\* C13: the deferred queue holds cells only while a barrier is open.
C13_QueueOnlyBehindBarrier ==
    deferred_history_cells /= << >> => IsSome(translation_barrier)

\* C13 witness: a flush has stopped at a cell that opened a new barrier, and
\* a cell is still queued behind that barrier.
C13_Witness ==
    /\ Len(closed) >= 1
    /\ IsSome(translation_barrier)
    /\ deferred_history_cells /= << >>
    /\ pc = "idle"

\* The request ids of the barriers closed by timeout.
TimedOutIds == {closed[i].request_id : i \in {k \in 1..Len(closed) : closed[k].by = "timeout"}}

TicksKeepOccurring ==
    /\ WF_vars(CallOnDrawTick)
    /\ WF_results(ReceiveStep)
    /\ WF_vars(DrainEmpty)
    /\ WF_pc(TickReturnStep)
    /\ WF_vars(AdvanceClock)

FairSpec == Init /\ [][Next]_vars /\ TicksKeepOccurring

\* C12: provided ticks keep occurring, every opened barrier is eventually
\* closed and every intercepted cell, deferred or not, eventually reaches the
\* output.
C12_HostStreamNeverBlocked ==
    /\ \A i \in 1..MaxItems : (Len(opened) >= i) ~> (Len(closed) >= i)
    /\ \A i \in 1..MaxItems :
          (Len(intercepted) >= i) ~> (Len(StreamItems(app_events)) >= i)

\* C14 as stated: a barrier opened later carries a strictly greater request
\* id than every barrier opened before it (so no two carry the same).
C14_RequestIdsStrictlyIncreasing ==
    \A i, j \in 1..Len(opened) :
        i < j => opened[i].request_id < opened[j].request_id

\* C14, amended: request ids never decrease, and a barrier opened later
\* carries a strictly greater request id than an earlier one unless the
\* earlier one already carries U64_MAX, where the counter has saturated; up
\* to there the request id of a barrier is the counter value it was opened at.
C14_RequestIdsIncreaseUntilSaturation ==
    /\ \A i, j \in 1..Len(opened) :
          i < j => \/ opened[i].request_id < opened[j].request_id
                   \/ /\ opened[i].request_id = U64_MAX
                      /\ opened[j].request_id = U64_MAX
    /\ \A i \in 1..Len(opened) : opened[i].request_id <= translation_seq
    /\ translation_seq <= U64_MAX

\* C14 witness: three barriers were opened, the first below the largest u64
\* and the last at it.
C14_Witness ==
    /\ Len(opened) = 3
    /\ opened[1].request_id = U64_MAX - 1
    /\ opened[3].request_id = U64_MAX

\* The request ids of the barriers opened so far.
OpenedIds == {opened[i].request_id : i \in 1..Len(opened)}

\* The request ids of the barriers closed by a message.
ResolvedIds ==
    {closed[i].request_id : i \in {k \in 1..Len(closed) : closed[k].by /= "timeout"}}

\* This step puts the message of task t at the tail of the channel: the
\* message carries what t was dispatched with and exactly one of translated
\* and error, and t is no longer in flight.
SendsMessageOf(t) ==
    /\ Len(results') = Len(results) + 1
    /\ SubSeq(results', 1, Len(results)) = results
    /\ LET msg == results'[Len(results')]
       IN  /\ msg.request_id = t.request_id
           /\ msg.thread_id = t.thread_id
           /\ msg.title = t.title
           /\ IsSome(msg.translated) /= IsSome(msg.error)
    /\ tasks' = tasks \ {t}
    /\ task_frames' = task_frames + 1

\* This step dispatches task t: it is the one new task, and it carries the
\* request id, thread id and title of the barrier this step has opened, a
\* request id no earlier barrier had.
DispatchesWithBarrier(t) ==
    /\ tasks' = tasks \cup {t}
    /\ IsSome(translation_barrier')
    /\ Len(opened') = Len(opened) + 1
    /\ t.request_id = Unwrap(translation_barrier').request_id
    /\ t.thread_id = Unwrap(translation_barrier').thread_id
    /\ t.title = Unwrap(translation_barrier').title
    /\ t.request_id = opened'[Len(opened')].request_id
    /\ t.request_id \notin OpenedIds

----------------------------------------------------------------------------
(* The splitter as it is described: the first delimiter pair of a text.    *)

\* The 0-based indices at which a "**" starts.
DelimiterIndices(s) == {i \in 0..(Len(s) - 2) : s[i + 1] = "*" /\ s[i + 2] = "*"}

\* The index of the first opening delimiter (only used where there is one).
FirstOpening(s) ==
    CHOOSE i \in DelimiterIndices(s) : \A k \in DelimiterIndices(s) : i <= k

\* The indices of the delimiters that can close the first opening one.
ClosingIndices(s) == {j \in DelimiterIndices(s) : j >= FirstOpening(s) + 2}

\* The text has a first delimiter pair: an opening "**" and a closing one.
HasFirstPair(s) == DelimiterIndices(s) /= {} /\ ClosingIndices(s) /= {}

\* The index of the first closing delimiter after the first opening one.
FirstClosing(s) ==
    CHOOSE j \in ClosingIndices(s) : \A k \in ClosingIndices(s) : j <= k

\* The text the first pair encloses.
FirstPairContent(s) == SubSeq(s, FirstOpening(s) + 3, FirstClosing(s))

\* The text strictly after the first pair's closing delimiter.
FirstPairRemainder(s) == SubSeq(s, FirstClosing(s) + 3, Len(s))

\* The title as described: the trimmed content of the first pair, None when
\* there is no pair or that content is empty after trimming.
TitleOfFirstPair(s) ==
    IF HasFirstPair(s) /\ Trim(FirstPairContent(s)) /= << >>
    THEN Some(Trim(FirstPairContent(s)))
    ELSE None

\* C17: the title extract_first_bold returns is the trimmed content of the
\* first delimiter pair of the text, and None when there is no pair or the
\* first pair encloses nothing but whitespace.
C17_TitleIsFirstPair ==
    IsSome(split.title) => Unwrap(split.title) = TitleOfFirstPair(split.text)

\* C18 as stated: the body extract_reasoning_body returns is the text after
\* the first pair's closing delimiter with its leading whitespace removed,
\* and None when there is no pair or that text is empty after trimming.
C18_BodyIsLeftTrimmedRemainder ==
    IsSome(split.body) =>
        Unwrap(split.body) =
            IF HasFirstPair(split.text)
               /\ Trim(FirstPairRemainder(split.text)) /= << >>
            THEN Some(TrimStart(FirstPairRemainder(split.text)))
            ELSE None

\* C18, amended: the body is the text after the first pair's closing
\* delimiter with its leading and its trailing whitespace removed (the text
\* is trimmed before it is split), and None when there is no pair or that
\* text is empty after trimming.
C18_BodyIsTrimmedRemainder ==
    IsSome(split.body) =>
        Unwrap(split.body) =
            IF HasFirstPair(split.text)
               /\ Trim(FirstPairRemainder(split.text)) /= << >>
            THEN Some(Trim(FirstPairRemainder(split.text)))
            ELSE None

\* C18 witness: a body was returned for a text that ends in whitespace.
C18_Witness ==
    /\ IsSome(split.body)
    /\ IsSome(Unwrap(split.body))
    /\ split.text[Len(split.text)] = " "
    /\ split.text[1] = " "

\* C19: when a title and a body are both returned for a text, the title is
\* the content of the text's first delimiter pair, the pair the body is the
\* remainder of, so the title is not taken from inside the body.
C19_TitleAndBodyShareFirstPair ==
    (/\ IsSome(split.title) /\ IsSome(Unwrap(split.title))
     /\ IsSome(split.body) /\ IsSome(Unwrap(split.body)))
    => /\ HasFirstPair(split.text)
       /\ Unwrap(split.title) = Some(Trim(FirstPairContent(split.text)))
       /\ Unwrap(split.body) = Some(Trim(FirstPairRemainder(split.text)))

----------------------------------------------------------------------------
(* Direct calls of maybe_translate_reasoning.                              *)

\* This step is a call of maybe_translate_reasoning by the host.
DirectCallStep == pc = "idle" /\ pc' = "called"

\* The text has a body that is not empty.
HasBody(full_reasoning) ==
    /\ IsSome(ExtractReasoningBody(full_reasoning))
    /\ Trim(Unwrap(ExtractReasoningBody(full_reasoning))) /= << >>

\* This step opens a barrier for the call's thread id under the next request
\* id, dispatches exactly one task for it and schedules the wake-up.
OpensAndDispatches ==
    /\ ~IsSome(translation_barrier)
    /\ IsSome(translation_barrier')
    /\ Unwrap(translation_barrier').request_id = translation_seq
    /\ Unwrap(translation_barrier').thread_id = Unwrap(Unwrap(call').thread_id)
    /\ translation_seq' = translation_seq + 1
    /\ \E t \in tasks' :
          /\ t \notin tasks
          /\ tasks' = tasks \cup {t}
          /\ t.request_id = translation_seq
          /\ t.thread_id = Unwrap(Unwrap(call').thread_id)
          /\ t.text = Unwrap(call').full_reasoning
    /\ frames' = Append(frames, Unwrap(translation_barrier').max_wait)
    /\ UNCHANGED <<deferred_history_cells, app_events, results, task_frames,
                   enabled, config>>

\* This step leaves the translator and its collaborators as they are.
IsNoOp ==
    UNCHANGED <<translation_barrier, translation_seq, deferred_history_cells,
                tasks, frames, task_frames, results, app_events, enabled, config>>

\* C20: maybe_translate_reasoning returns true exactly when it has opened a
\* new barrier and dispatched one task, and false, changing nothing, exactly
\* when translation is disabled, no thread id is given, the text has no
\* non-empty body or a barrier is open already.
C20_ReturnsTrueIffBarrierOpened ==
    [][DirectCallStep
       => /\ Unwrap(call').ret \in BOOLEAN
          /\ IF Unwrap(call').ret THEN OpensAndDispatches ELSE IsNoOp
          /\ Unwrap(call').ret =
                ~(\/ ~enabled
                  \/ ~IsSome(Unwrap(call').thread_id)
                  \/ ~HasBody(Unwrap(call').full_reasoning)
                  \/ IsSome(translation_barrier))]_vars

\* C20 witness: a call with translation enabled, a thread id and a text with
\* a body has returned false because a barrier is open, with a cell queued
\* behind that barrier.
C20_Witness ==
    /\ pc = "called"
    /\ IsSome(call)
    /\ Unwrap(call).ret = FALSE
    /\ enabled
    /\ IsSome(Unwrap(call).thread_id)
    /\ HasBody(Unwrap(call).full_reasoning)
    /\ IsSome(translation_barrier)
    /\ deferred_history_cells /= << >>

----------------------------------------------------------------------------
(* The max wait and the deadline.                                          *)

\* The text is the decimal writing of an unsigned integer that a u64 holds:
\* digits only, at least one, and not above the digits of U64_MAX.
IsUnsignedText(t) ==
    LET largest == FormatU(U64_MAX)
    IN  /\ t /= << >>
        /\ \A i \in 1..Len(t) : IsDigit(t[i])
        /\ \/ Len(t) < Len(largest)
           \/ /\ Len(t) = Len(largest)
              /\ \A i \in 1..Len(t) :
                    (\A j \in 1..(i - 1) : t[j] = largest[j])
                        => DigitValue(t[i]) <= DigitValue(largest[i])

RECURSIVE DecimalValue(_)
\* The number that a text of digits writes.
DecimalValue(t) ==
    IF t = << >> THEN 0
    ELSE DecimalValue(SubSeq(t, 1, Len(t) - 1)) * 10 + DigitValue(t[Len(t)])

\* The max wait, in milliseconds, that the value v of the override variable
\* stands for: the number v writes, spaces around it aside, and 5000 when v
\* is unset or writes no number.
StatedMaxWait(v) ==
    IF IsSome(v) /\ IsUnsignedText(Trim(Unwrap(v)))
    THEN DecimalValue(Trim(Unwrap(v)))
    ELSE 5000

\* This step opens a barrier.
OpeningStep == Len(opened') = Len(opened) + 1

\* The record of the opening of the barrier that is open, or was open last.
LastOpened == opened[Len(opened)]

\* This step closes the open barrier by timeout.
TimeoutStep == ClosingStep /\ closed'[Len(closed')].by = "timeout"

\* Adding the max wait to the opening time overflows the clock.
Overflows(at, max_wait) == max_wait > INSTANT_MAX - at

\* C21: the max wait of a barrier is the one the override variable stands for
\* when the barrier opens (its number in milliseconds, 5000 when unset or no
\* number), and so is its deadline; a change of the variable while the
\* barrier is open leaves the barrier as it is, and the timeout message of a
\* barrier names the max wait read at its opening, whatever the variable has
\* become, while the barrier opened next has the max wait of the new value.
C21_MaxWaitReadAtOpening ==
    [][/\ OpeningStep =>
             /\ opened'[Len(opened')].env = env
             /\ Unwrap(translation_barrier').max_wait = StatedMaxWait(env)
             /\ ~Overflows(now, StatedMaxWait(env)) =>
                    Unwrap(translation_barrier').deadline = now + StatedMaxWait(env)
       /\ (IsSome(translation_barrier) /\ env' /= env) =>
             translation_barrier' = translation_barrier
       /\ TimeoutStep =>
             /\ app_events'[Len(app_events) + 1] =
                    NewAgentReasoningTranslationErrorBlock(
                        Barrier.title,
                        TimeoutMessage(StatedMaxWait(LastOpened.env)))
             /\ ~Overflows(LastOpened.at, StatedMaxWait(LastOpened.env)) =>
                    /\ Barrier.deadline = LastOpened.at + StatedMaxWait(LastOpened.env)
                    /\ now >= LastOpened.at + StatedMaxWait(LastOpened.env)
      ]_vars

\* A barrier opened while the variable said 1 ms has timed out with the
\* message naming 1 ms after the variable was unset, and the barrier that the
\* flush of that same step reopened has the default max wait.
C21_Witness ==
    /\ IsSome(translation_barrier)
    /\ \E i \in 1..Len(closed) :
          /\ closed[i].by = "timeout"
          /\ opened[i].request_id = closed[i].request_id
          /\ opened[i].env = Some(<<" ", "1">>)
          /\ app_events[closed[i].pos].text = Some(TimeoutMessage(1))
          /\ Len(opened) = i + 1
          /\ opened[i + 1].pos = closed[i].pos + 1
          /\ opened[i + 1].env = None
          /\ Barrier.max_wait = DEFAULT_TRANSLATION_MAX_WAIT_MS
          /\ Barrier.deadline = opened[i + 1].at + DEFAULT_TRANSLATION_MAX_WAIT_MS

\* C22: the deadline of a barrier that opens is never earlier than the time
\* of its opening, and is that time plus the max wait whenever the sum does
\* not overflow the clock; a timeout check made before the opening time plus
\* the max wait closes the barrier only if that sum overflowed.
C22_DeadlineIsOpeningPlusMaxWait ==
    [][/\ OpeningStep =>
             LET barrier == Unwrap(translation_barrier')
             IN  /\ opened'[Len(opened')].at = now
                 /\ barrier.deadline >= now
                 /\ ~Overflows(now, barrier.max_wait) =>
                        barrier.deadline = now + barrier.max_wait
       /\ (TimeoutStep /\ ~Overflows(LastOpened.at, Barrier.max_wait)) =>
             now >= LastOpened.at + Barrier.max_wait
      ]_vars

\* A barrier opened one millisecond before the end of the clock with a max
\* wait of 1 ms has timed out at the end of the clock, and the barrier opened
\* there, whose deadline overflowed, has timed out at its opening time.
C22_Witness ==
    /\ Len(opened) = 2
    /\ Len(closed) = 2
    /\ closed[1].by = "timeout"
    /\ closed[2].by = "timeout"
    /\ frames = <<1, 1>>
    /\ opened[1].at = INSTANT_MAX - 1
    /\ opened[2].at = INSTANT_MAX
    /\ Overflows(opened[2].at, frames[2])
    /\ now = INSTANT_MAX

----------------------------------------------------------------------------
(* What a completion that closes the barrier sends.                        *)

\* This step is a turn of the drain loop whose message closes the barrier
\* with a translated text.
SuccessStep ==
    /\ ReceiveStep
    /\ ClosingStep
    /\ closed'[Len(closed')].by = "translated"

\* The cell this step sends first.
FirstSent == app_events'[Len(app_events) + 1]

\* The translated text of the message this step receives.
Received == Unwrap(Head(results).translated)

\* C23 as stated: a completion that closes the barrier with a translated
\* text sends a translation block holding the body of that text when the
\* splitter finds one, and the text exactly as received otherwise.
C23_BodyOrRawText ==
    [][SuccessStep =>
          FirstSent = NewAgentReasoningTranslationBlock(
                          None,
                          IF IsSome(ExtractReasoningBody(Received))
                          THEN Unwrap(ExtractReasoningBody(Received))
                          ELSE Received)
      ]_vars

\* C23: a completion that closes the barrier with a translated text sends a
\* translation block holding the body of that text when the splitter finds
\* one; otherwise the text without the whitespace around it, and the text
\* exactly as received when it is whitespace only.
C23_BodyOrTrimmedText ==
    [][SuccessStep =>
          FirstSent = NewAgentReasoningTranslationBlock(
                          None,
                          IF IsSome(ExtractReasoningBody(Received))
                          THEN Unwrap(ExtractReasoningBody(Received))
                          ELSE IF Trim(Received) = << >> THEN Received
                          ELSE Trim(Received))
      ]_vars

\* A translation with a body, one without markup that ends with a line
\* break and one of whitespace only have each closed a barrier; the blocks
\* sent hold the body, the text without the line break and the whitespace.
C23_Witness ==
    /\ Len(closed) = 3
    /\ \A i \in 1..3 : closed[i].by = "translated"
    /\ {app_events[closed[i].pos].text : i \in 1..3} =
           {Some(<<"y">>), Some(<<"z">>), Some(TranslatedBlank)}

\* This step is a turn of the drain loop whose message closes the barrier
\* with a provider error.
FailureStep ==
    /\ ReceiveStep
    /\ ClosingStep
    /\ closed'[Len(closed')].by = "error"

\* The title of the markdown of the intercepted cell for which the barrier
\* that is open was opened: the title its request was dispatched with.
DispatchedTitle ==
    ExtractFirstBold(Unwrap(FullMarkdownForTranslation(intercepted[LastOpened.cell])))

\* What on_translation_completed would have made of the message of this step
\* had the provider answered it with a translation.
HadItSucceeded ==
    OnTranslationCompleted(
        World,
        [Head(results) EXCEPT !.translated = Some(TranslatedRaw), !.error = None],
        tick.active_thread_id)

\* C24: a completion that closes the barrier with a provider error sends an
\* error block holding the title the request was dispatched with and the
\* error text of the provider as received; it closes the barrier and flushes
\* the deferred queue as a translation would have (same cells sent after the
\* block, same queue left, same barrier reopened, same task dispatched), and
\* no cell is ever given a second barrier or task, failed or not.
C24_FailureClosesLikeSuccess ==
    [][FailureStep =>
          /\ FirstSent = NewAgentReasoningTranslationErrorBlock(
                             DispatchedTitle, Unwrap(Head(results).error))
          /\ translation_barrier' = None
                \/ Unwrap(translation_barrier').request_id /= Barrier.request_id
          /\ deferred_history_cells' = << >> \/ IsSome(translation_barrier')
          /\ translation_barrier' = HadItSucceeded.translation_barrier
          /\ deferred_history_cells' = HadItSucceeded.deferred_history_cells
          /\ Tail(SubSeq(app_events', Len(app_events) + 1, Len(app_events'))) =
                Tail(SubSeq(HadItSucceeded.app_events, Len(app_events) + 1,
                            Len(HadItSucceeded.app_events)))
          /\ tasks' = HadItSucceeded.tasks
          /\ \A t \in tasks' \ tasks : t.request_id /= Barrier.request_id
          /\ \A i \in 1..Len(opened') :
                i /= Len(opened) => opened'[i].cell /= LastOpened.cell
      ]_vars

\* A provider error has closed the barrier of a cell with a title while two
\* cells waited in the queue: the error block sits behind that cell with its
\* title "T" and the text "bad", the first queued cell was sent and given a
\* barrier of its own, and the second waits behind it.
C24_Witness ==
    /\ Len(closed) = 1
    /\ closed[1].by = "error"
    /\ app_events[closed[1].pos] =
           NewAgentReasoningTranslationErrorBlock(Some(<<"T">>), <<"b", "a", "d">>)
    /\ Len(opened) = 2
    /\ opened[2].pos = closed[1].pos + 1
    /\ IsSome(translation_barrier)
    /\ Len(deferred_history_cells) = 1
    /\ Cardinality(tasks) = 1

----------------------------------------------------------------------------
(* What an intercepted cell brings about, at once and later.               *)

\* The cell that this step hands to an intercept entry point.
Intercepted == intercepted'[Len(intercepted')]

\* This step is a call of emit_history_cell_with_translation_hook.
HookStep == InterceptStep /\ pc' = "called"

\* The call of this step goes through the hook with a reasoning cell whose
\* markdown has a non-empty body, with translation enabled and a thread id.
Qualifies ==
    /\ HookStep
    /\ Intercepted.kind = "reasoning"
    /\ enabled
    /\ IsSome(Unwrap(call').thread_id)
    /\ HasBody(Unwrap(Intercepted.text))

\* C25: with no barrier open, an intercepted cell is sent at once, nothing
\* being queued; a barrier opens in that step only if the cell is a reasoning
\* cell passed through the hook with translation enabled, a thread id and a
\* markdown whose split gives a non-empty body, and in every other case no
\* barrier opens, no task is dispatched, no wake-up is scheduled and the
\* counter stays.
C25_OpensOnlyForQualifyingCell ==
    [][(InterceptStep /\ ~IsSome(translation_barrier)) =>
          /\ app_events' = Append(app_events, Intercepted)
          /\ deferred_history_cells' = deferred_history_cells
          /\ IsSome(translation_barrier') => Qualifies
          /\ ~Qualifies =>
                /\ translation_barrier' = None
                /\ tasks' = tasks
                /\ frames' = frames
                /\ translation_seq' = translation_seq
                /\ opened' = opened
      ]_vars

\* Three reasoning cells with a body were sent at once and none opened a
\* barrier or dispatched a task; the last went through the hook with
\* translation enabled but without a thread id.
C25_Witness ==
    /\ Len(intercepted) = 3
    /\ app_events = intercepted
    /\ \A k \in 1..3 : intercepted[k].text = Some(TextThinking)
    /\ tasks = {}
    /\ opened = << >>
    /\ pc = "called"
    /\ Unwrap(call).thread_id = None
    /\ enabled

\* C26: a barrier opens, and a task is dispatched, only in the step that
\* sends the cell it is for, be it an intercept or a flush: the cell sits at
\* a position the output did not have before the step, and the one new task
\* carries its markdown. Hence a cell sent without a barrier gets none later;
\* no cell is given two barriers or tasks, and every enrichment item in the
\* output closes the barrier opened for the cell directly before it.
C26_EligibilityDecidedAtEmission ==
    /\ [][OpeningStep =>
             LET o == opened'[Len(opened')]
             IN  /\ o.pos > Len(app_events)
                 /\ o.pos <= Len(app_events')
                 /\ app_events'[o.pos] = intercepted'[o.cell]
                 /\ \E t \in tasks' :
                       /\ tasks' \ tasks = {t}
                       /\ t.request_id = o.request_id
                       /\ Some(t.text) = FullMarkdownForTranslation(intercepted'[o.cell])
         ]_vars
    /\ [][(tasks' \ tasks /= {}) => OpeningStep]_vars
    /\ [](\A i, j \in 1..Len(opened) : opened[i].cell = opened[j].cell => i = j)
    /\ [](\A k \in 1..Len(app_events) :
             IsEnrichment(app_events[k]) =>
                \E i \in 1..Len(closed), j \in 1..Len(opened) :
                    /\ closed[i].pos = k
                    /\ opened[j].pos = k - 1
                    /\ opened[j].request_id = closed[i].request_id)

\* A reasoning cell with a body was sent while translation was disabled and
\* has no enrichment item behind it, although translation was enabled later
\* and the same text, sent next, opened a barrier that a completion closed.
C26_Witness ==
    /\ Len(app_events) >= 3
    /\ IsEligible(app_events[1])
    /\ app_events[2].text = app_events[1].text
    /\ Len(opened) = 1
    /\ opened[1].pos = 2
    /\ Len(closed) = 1
    /\ closed[1].pos = 3
    /\ closed[1].by = "translated"
    /\ enabled
    /\ tasks = {}
    /\ translation_barrier = None

----------------------------------------------------------------------------
(* Wake-ups.                                                               *)

\* A tick has begun at or after the deadline of the k-th barrier opened.
TickAtOrAfterDeadline(k) ==
    /\ k <= Len(opened)
    /\ pc \in {"drain", "return"}
    /\ tick.entered >= opened[k].at + frames[k]

\* C27: a step asks for a wake-up exactly when it opens a barrier, be it on
\* intercept or during a flush: one wake-up, after the max wait of the
\* barrier it has opened. With a host loop that draws only for the wake-ups
\* asked for, and no completion ever arriving, every barrier opened whose
\* wake-up is still to be answered is followed by a tick that begins at or
\* after its deadline.
C27_WakeUpPerOpening ==
    /\ [][IF OpeningStep
          THEN frames' = Append(frames, Unwrap(translation_barrier').max_wait)
          ELSE frames' = frames]_vars
    /\ [](Len(frames) = Len(opened))
    /\ \A k \in 1..MaxItems :
          (Len(opened) >= k /\ woken < k) ~> TickAtOrAfterDeadline(k)

\* The tick that answers the wake-up of a barrier reopened by a flush has
\* begun at the deadline of that barrier, which is still open.
C27_Witness ==
    /\ Len(opened) = 2
    /\ Len(closed) = 1
    /\ opened[2].pos = closed[1].pos + 1
    /\ woken = 2
    /\ pc = "drain"
    /\ IsSome(translation_barrier)
    /\ tick.entered = Barrier.deadline
    /\ frames[2] = Barrier.max_wait

----------------------------------------------------------------------------
(* The tick.                                                               *)

\* This step puts one message at the tail of the channel.
SendStep == \E msg \in {results'[Len(results')]} : results' = Append(results, msg)

\* What on_translation_completed makes of the oldest message in the channel.
OldestHandled ==
    OnTranslationCompleted(World, Head(results), tick.active_thread_id)

\* C28: the channel is first in, first out: it changes only by a message
\* joining its tail or by a tick that is draining taking its oldest message,
\* which is the one the tick then handles; a tick of an enabled translator
\* leaves its drain only when the channel is empty, so that nothing a task
\* had sent by then is left, and with the channel empty it can always go
\* on, whatever tasks are still in flight: it does not wait for them.
C28_TickDrainsChannel ==
    /\ [][results' /= results =>
             \/ Len(results') > Len(results) /\ SendStep /\ pc' = pc
             \/ /\ pc = "drain" /\ pc' = "drain"
                /\ results /= << >>
                /\ results' = Tail(results)
                /\ tick'.log = Append(tick.log, OldestHandled.path)
                /\ translation_barrier' = OldestHandled.translation_barrier
                /\ app_events' = OldestHandled.app_events
         ]_vars
    /\ [][(pc = "idle" /\ pc' /= "idle" /\ enabled) => pc' = "drain"]_vars
    /\ [][(pc = "drain" /\ pc' /= "drain") =>
             /\ results = << >>
             /\ results' = << >>]_vars
    /\ [](pc = "drain" /\ results = << >> => ENABLED DrainEmpty)

\* A tick has taken two messages from the channel, the older of which it
\* ignored and the newer of which closed the barrier, and has found the
\* channel empty while a task was still in flight.
C28_Witness ==
    /\ pc = "timeout"
    /\ tick.log = <<"mismatch", "resolved">>
    /\ results = << >>
    /\ tasks /= {}

\* C29: a tick that has drained the channel always goes on to the timeout
\* check, whatever the drain did, and the check closes the barrier that is
\* open then, be it the one the tick found or one a flush of the drain has
\* reopened, exactly when its deadline has passed: with a timeout error
\* block and a flush, in that same tick; otherwise it changes nothing.
C29_TimeoutCheckedAfterDrain ==
    /\ [][(pc = "drain" /\ pc' /= "drain") =>
             /\ pc' = "timeout"
             /\ UNCHANGED <<translation_barrier, app_events, closed,
                            deferred_history_cells>>]_vars
    /\ [][(pc = "timeout" /\ pc' /= "timeout") =>
             /\ pc' = "idle"
             /\ IF BarrierExpired
                THEN TimeoutClosure
                ELSE UNCHANGED <<translation_barrier, app_events, closed,
                                 deferred_history_cells, tasks>>]_vars
    /\ [][(ClosingStep /\ closed'[Len(closed')].by = "timeout") =>
             pc = "timeout"]_vars

\* A completion closed the first barrier and the flush reopened one for the
\* cell that was waiting; a millisecond later that barrier was closed by
\* timeout, its task still in flight, and the tick has returned.
C29_Witness ==
    /\ pc = "idle"
    /\ Len(closed) = 2
    /\ closed[1].by = "translated"
    /\ closed[2].by = "timeout"
    /\ opened[2].pos = closed[1].pos + 1
    /\ closed[2].pos = opened[2].pos + 1
    /\ now = opened[2].at + 1
    /\ frames[2] = 1
    /\ \E t \in tasks : t.request_id = closed[2].request_id
    /\ results = << >>

----------------------------------------------------------------------------
(* The sequence counter.                                                   *)

\* C30: a step that opens a barrier advances the counter by one, or leaves
\* it at the largest u64 once it is there, and no other step (a
\* reconfiguration, a timeout, a completion, an intercept that opens nothing)
\* changes it: it never goes down. The counter of a translator made by
\* from_config is therefore the number of barriers opened so far, 0 at first
\* (the other runs begin with the counter one below the largest u64).
C30_CounterCountsOpenings ==
    /\ [][IF OpeningStep
          THEN translation_seq' =
                  IF translation_seq = U64_MAX THEN U64_MAX ELSE translation_seq + 1
          ELSE translation_seq' = translation_seq]_vars
    /\ [][translation_seq' >= translation_seq]_vars
    /\ [](\/ translation_seq = Len(opened)
          \/ translation_seq >= U64_MAX - 1)

\* Three barriers were opened from the counter one below the largest u64,
\* one closed by timeout and one by a completion, and translation was
\* switched off meanwhile: the counter went up to the largest u64 and stays.
C30_Witness ==
    /\ Len(opened) = 3
    /\ opened[1].request_id = U64_MAX - 1
    /\ translation_seq = U64_MAX
    /\ \E i \in 1..Len(closed) : closed[i].by = "timeout"
    /\ \E i \in 1..Len(closed) : closed[i].by = "translated"
    /\ ~enabled

----------------------------------------------------------------------------
(* Conservation.                                                           *)

\* C31: the stream items sent so far, in the order sent, followed by the
\* cells of the deferred queue, are the intercepted cells in the order of
\* their interception: no cell is lost, sent twice or dropped.
C31_ItemsConserved ==
    StreamItems(app_events) \o deferred_history_cells = intercepted

\* A barrier was closed and its flush sent one queued cell, reopened a
\* barrier for it and left the other queued: of three intercepted cells two
\* are in the output, around an enrichment item, and one is in the queue.
C31_Witness ==
    /\ Len(intercepted) = 3
    /\ Len(closed) = 1
    /\ Len(StreamItems(app_events)) = 2
    /\ Len(app_events) = 3
    /\ Len(deferred_history_cells) = 1
    /\ IsSome(translation_barrier)

----------------------------------------------------------------------------
(* The switch.                                                             *)

\* What a tick of a disabled translator must leave alone.
TranslatorUntouched ==
    UNCHANGED <<translation_barrier, deferred_history_cells, translation_seq,
                app_events, closed, opened, frames, enabled, config>>

\* C32: a tick that begins while translation is disabled goes straight to
\* its return; from its call to its return no message leaves the channel, no
\* barrier is closed, not even one past its deadline, and no cell is sent or
\* taken from the queue; maybe_flush_timeout by itself does nothing either.
\* A cell intercepted while translation is disabled and a barrier is open
\* goes to the back of the queue.
C32_DisabledTickIsNoOp ==
    /\ [][(pc = "idle" /\ pc' /= "idle" /\ ~enabled) =>
             /\ pc' = "return"
             /\ results' = results
             /\ tasks' = tasks
             /\ TranslatorUntouched]_vars
    /\ [][pc = "return" =>
             /\ pc' \in {"return", "idle"}
             /\ Len(results') >= Len(results)
             /\ SubSeq(results', 1, Len(results)) = results
             /\ TranslatorUntouched]_vars
    /\ [](pc = "return" => ~enabled)
    /\ [](~enabled =>
             \A active \in ActiveThreadIds :
                 MaybeFlushTimeout(World, active) = [World EXCEPT !.ret = FALSE])
    /\ [][(InterceptStep /\ ~enabled /\ IsSome(translation_barrier)) =>
             /\ deferred_history_cells' =
                    Append(deferred_history_cells, intercepted'[Len(intercepted')])
             /\ app_events' = app_events
             /\ translation_barrier' = translation_barrier]_vars

\* A tick of a disabled translator is about to return: it began after the
\* deadline of the barrier that is open, with a message for that barrier in
\* the channel and a cell in the queue, and all three are still there.
C32_Witness ==
    /\ pc = "return"
    /\ ~enabled
    /\ IsSome(translation_barrier)
    /\ tick.entered >= Barrier.deadline
    /\ results /= << >>
    /\ Head(results).request_id = Barrier.request_id
    /\ deferred_history_cells /= << >>

----------------------------------------------------------------------------
(* Completion and timeout in one tick.                                     *)

\* This step closes the open barrier with the message at the head of the
\* channel: it sends the translation block or the error block of the
\* provider for that request, and no timeout error.
CompletionCloses ==
    /\ ClosingStep
    /\ closed'[Len(closed')].request_id = Head(results).request_id
    /\ closed'[Len(closed')].by =
           IF IsSome(Head(results).translated) THEN "translated" ELSE "error"
    /\ FirstSent.kind =
           IF IsSome(Head(results).translated) THEN "translation"
           ELSE "translation_error"
    /\ FirstSent.text /= Some(TimeoutMessage(Barrier.max_wait))
    /\ translation_barrier' = None
          \/ Unwrap(translation_barrier').request_id /= Barrier.request_id

\* C33 as stated: a tick that receives a message matching the open barrier
\* after the deadline of that barrier closes the barrier with that message.
C33_CompletionAlwaysWins ==
    [][(ReceiveStep /\ HeadMatchesBarrier /\ BarrierExpired)
       => CompletionCloses]_vars

\* C33: a tick that receives a message matching the open barrier after the
\* deadline of that barrier closes the barrier with that message when the
\* thread of the message is the active thread of the tick, and no timeout
\* error is ever sent for that request: a request is closed once. When
\* another thread, or none, is active the message is dropped and the barrier
\* is still open and expired when the tick comes to its timeout check.
C33_ActiveCompletionWins ==
    /\ [][(ReceiveStep /\ HeadMatchesBarrier /\ BarrierExpired)
          => IF tick.active_thread_id = Some(Head(results).thread_id)
             THEN CompletionCloses
             ELSE UNCHANGED <<translation_barrier, app_events, closed,
                              deferred_history_cells>>]_vars
    /\ [](\A i, j \in 1..Len(closed) :
             closed[i].request_id = closed[j].request_id => i = j)

\* The one barrier opened was closed by a translation that the tick found
\* in the channel after the deadline had passed; no timeout error was sent.
C33_Witness ==
    /\ Len(opened) = 1
    /\ Len(closed) = 1
    /\ closed[1].by = "translated"
    /\ now >= opened[1].at + frames[1]
    /\ translation_barrier = None
    /\ \A k \in 1..Len(app_events) : app_events[k].kind /= "translation_error"

\* This step is the timeout check of a tick.
TimeoutCheckStep == pc = "timeout" /\ pc' = "idle"

\* C34: the timeout check of a tick closes the open barrier whose deadline
\* has passed whatever the active thread of the tick is, the barrier's own,
\* another or none: with each of them maybe_flush_timeout returns true,
\* records the same closure and sends the same error block first; the active
\* thread bears on the flush that follows only.
C34_TimeoutIgnoresActiveThread ==
    [][(TimeoutCheckStep /\ BarrierExpired) =>
          /\ closed' = Append(closed, [request_id |-> Barrier.request_id,
                                       by |-> "timeout",
                                       pos |-> Len(app_events) + 1])
          /\ FirstSent = NewAgentReasoningTranslationErrorBlock(
                             Barrier.title, TimeoutMessage(Barrier.max_wait))
          /\ translation_barrier' = None
                \/ Unwrap(translation_barrier').request_id /= Barrier.request_id
          /\ \A active \in ActiveThreadIds :
                LET w == MaybeFlushTimeout(World, active)
                IN  /\ w.ret = TRUE
                    /\ w.closed = closed'
                    /\ w.app_events[Len(app_events) + 1] = FirstSent
                    /\ SubSeq(w.app_events, 1, Len(app_events)) = app_events
      ]_vars

\* A barrier of thread t1 was closed by the timeout check of a tick whose
\* active thread was t2: the flush of that step reopened a barrier for the
\* queued cell, and that barrier is keyed t2.
C34_Witness ==
    /\ Len(closed) = 1
    /\ closed[1].by = "timeout"
    /\ Len(opened) = 2
    /\ opened[2].pos = closed[1].pos + 1
    /\ IsSome(translation_barrier)
    /\ Barrier.thread_id = "t2"
    /\ \E t \in tasks : t.request_id = closed[1].request_id /\ t.thread_id = "t1"

----------------------------------------------------------------------------
(* A completion dropped for the active thread.                             *)

\* The answer to the request of the open barrier is gone: no task of that
\* request is in flight and no message of it is in the channel.
AnswerGone ==
    /\ IsSome(translation_barrier)
    /\ \A t \in tasks : t.request_id /= Barrier.request_id
    /\ \A k \in 1..Len(results) : results[k].request_id /= Barrier.request_id

\* This step is a turn of the drain loop that drops a message matching the
\* open barrier because its thread is not the active one.
InactiveDropStep ==
    /\ ReceiveStep
    /\ HeadMatchesBarrier
    /\ tick'.log = Append(tick.log, "inactive")

\* C35: a message matching the open barrier that is dropped because the
\* active thread of the tick is another, or none, leaves the barrier open
\* with its answer gone; the answer stays gone whatever the active thread of
\* later ticks is, and the barrier is closed by nothing but the timeout,
\* with the timeout error block, also when the dropped message held a
\* translation.
C35_DroppedThenOnlyTimeout ==
    /\ [][InactiveDropStep =>
             /\ translation_barrier' = translation_barrier
             /\ AnswerGone']_vars
    /\ [][(AnswerGone /\ translation_barrier' = translation_barrier) =>
             AnswerGone']_vars
    /\ [][(AnswerGone /\ translation_barrier' /= translation_barrier) =>
             /\ pc = "timeout"
             /\ BarrierExpired
             /\ TimeoutClosure]_vars

\* The active thread is the barrier's own again: a tick with that thread has
\* found the channel empty, the translation sent for the barrier having been
\* dropped by an earlier tick, and is at its timeout check past the deadline.
C35_Witness ==
    /\ pc = "timeout"
    /\ AnswerGone
    /\ BarrierExpired
    /\ tick.active_thread_id = Some(Barrier.thread_id)
    /\ tick.log = << >>
    /\ closed = << >>
    /\ Len(opened) = 1

----------------------------------------------------------------------------
(* The barrier reopened by a flush.                                        *)

\* C36: a flush runs with translation enabled, and what it reopens depends on
\* the queue and on the active thread of the tick that runs it alone: with an
\* active thread and an eligible cell queued, it sends the queue up to the
\* first eligible cell and opens a barrier for that cell under the active
\* thread of the tick; with no active thread, or no eligible cell queued, it
\* sends the whole queue and opens no barrier.
C36_ReopenedUnderTickThread ==
    [][ClosingStep =>
          /\ enabled
          /\ pc \in {"drain", "timeout"}
          /\ IF IsSome(tick.active_thread_id) /\ FirstEligible /= 0
             THEN /\ EmitsEnrichmentThenFirst(FirstEligible)
                  /\ ReopensFor(deferred_history_cells[FirstEligible])
                  /\ Unwrap(translation_barrier').thread_id =
                         Unwrap(tick.active_thread_id)
             ELSE /\ EmitsEnrichmentThenFirst(Len(deferred_history_cells))
                  /\ translation_barrier' = None
                  /\ opened' = opened
                  /\ tasks' = tasks
       ]_vars

\* A flush has reopened the barrier under thread t2, the active thread of its
\* tick: no cell is ever handed in with that thread.
C36_Witness ==
    /\ Len(closed) = 1
    /\ Len(opened) = 2
    /\ opened[2].pos = closed[1].pos + 1
    /\ IsSome(translation_barrier)
    /\ Barrier.request_id = opened[2].request_id
    /\ Barrier.thread_id = "t2"
    /\ Some("t2") \notin HookThreadIds

----------------------------------------------------------------------------
(* Enrichment items are sent, never queued.                                *)

\* C37: the deferred queue never holds an enrichment item, and the step that
\* closes a barrier (by a translation, a provider error or the timeout) sends
\* the enrichment item of that barrier itself, at the next output position
\* and before every cell it flushes from the queue.
C37_EnrichmentNeverDeferred ==
    /\ [](\A k \in 1..Len(deferred_history_cells) :
             ~IsEnrichment(deferred_history_cells[k]))
    /\ [][ClosingStep =>
             /\ closed'[Len(closed')].pos = Len(app_events) + 1
             /\ Len(app_events') > Len(app_events)
             /\ SubSeq(app_events', 1, Len(app_events)) = app_events
             /\ IsEnrichment(app_events'[Len(app_events) + 1])
             /\ \E n \in 0..Len(deferred_history_cells) :
                    EmitsEnrichmentThenFirst(n)
       ]_vars

\* A translation closed the first barrier with cells queued behind it: its
\* item is in the output followed by a flushed cell, and the rest of the
\* queue waits behind the barrier the flush reopened.
C37_Witness ==
    /\ Len(closed) = 1
    /\ closed[1].by = "translated"
    /\ Len(app_events) = closed[1].pos + 1
    /\ IsEnrichment(app_events[closed[1].pos])
    /\ ~IsEnrichment(app_events[closed[1].pos + 1])
    /\ IsSome(translation_barrier)
    /\ deferred_history_cells /= << >>

----------------------------------------------------------------------------
(* The two steps of a task's end, and a host loop that answers the frames  *)
(* the tasks ask for.                                                      *)

\* The number of tasks that have sent their message: every opening spawned
\* one task, and tasks holds those that have not sent yet.
MessagesSent == Len(opened) - Cardinality(tasks)

\* A spawned task finishes do_translate and sends its one message.
TaskSendMessage ==
    \E t \in tasks, outcome \in TranslateOutcomes :
        /\ results' = Append(results, TaskMessage(t, outcome))
        /\ tasks' = tasks \ {t}
        /\ UNCHANGED <<call, split, woken, enabled, config, translation_barrier,
                       deferred_history_cells, translation_seq, app_events,
                       frames, task_frames, now, env, pc, tick, intercepted,
                       opened, closed>>

\* Variant of TaskScheduleFrame: a task asks for its frame at any moment of
\* its life, also before it has sent (not what the code does).
TaskScheduleFrame_BeforeSend ==
    /\ task_frames < Len(opened)
    /\ task_frames' = task_frames + 1
    /\ UNCHANGED <<call, split, woken, enabled, config, translation_barrier,
                   deferred_history_cells, translation_seq, results,
                   app_events, tasks, frames, now, env, pc, tick, intercepted,
                   opened, closed>>

\* A task that has sent its message asks for a frame and ends.
TaskScheduleFrame ==
    /\ task_frames < MessagesSent
    /\ task_frames' = task_frames + 1
    /\ UNCHANGED <<call, split, woken, enabled, config, translation_barrier,
                   deferred_history_cells, translation_seq, results,
                   app_events, tasks, frames, now, env, pc, tick, intercepted,
                   opened, closed>>

\* The host loop answers the oldest frame a task asked for and that is not
\* answered yet with a draw: on_draw_tick is called as in CallOnDrawTick.
HostFrameTick ==
    /\ pc = "idle"
    /\ woken < task_frames
    /\ woken' = woken + 1
    /\ \E active \in ActiveThreadIds :
          IF ~enabled
          THEN /\ pc' = "return"
               /\ tick' = [NoTick EXCEPT !.entered = now]
          ELSE /\ pc' = "drain"
               /\ tick' = [active_thread_id |-> active, needs_redraw |-> FALSE,
                           log |-> << >>, entered |-> now]
    /\ Commit(World)
    /\ UNCHANGED <<call, split, results, task_frames, now, env, intercepted>>

\* The environment variable is unset.
InitFrame == Init /\ env = None

\* The host draws when a task asked for it and for reasons of its own; every
\* step is taken before the deadline of any barrier.
NextFrame ==
    \/ CallEmitHistoryCellWithTranslationHook
    \/ CallSetEnabled
    \/ CallOnDrawTick
    \/ HostFrameTick
    \/ TickReturnDisabled
    \/ DrainReceive
    \/ DrainEmpty
    \/ TickFlushTimeout
    \/ TaskSendMessage
    \/ TaskScheduleFrame

FrameSpec == InitFrame /\ [][NextFrame]_vars

\* This step begins the tick that answers a frame asked for by a task.
WakeTickStep == woken' = woken + 1

\* This step is a step of a task: it sends its message or asks for its frame.
TaskStep ==
    \/ tasks' /= tasks /\ tasks' \subseteq tasks
    \/ task_frames' /= task_frames

\* C38 as stated: the tick that answers the frame a task asked for finds a
\* message in the channel.
C38_WakeTickFindsMessage ==
    [][WakeTickStep => results /= << >>]_vars

\* C38: a task asks for its frame after it has sent its message, so that no
\* more frames are asked for, and no more answered, than messages were sent;
\* a message leaves the channel only by a tick receiving it, so that the tick
\* answering a task's frame finds the message unless a tick before it has
\* received it; and a step of a task changes nothing of the translator but
\* the channel.
C38_WakeUpFollowsSend ==
    /\ [](woken <= task_frames /\ task_frames <= MessagesSent)
    /\ [][task_frames' /= task_frames =>
             /\ task_frames < MessagesSent
             /\ task_frames' = task_frames + 1
             /\ results' = results]_vars
    /\ [][WakeTickStep => woken < MessagesSent]_vars
    /\ [][results' /= results =>
             \/ ReceiveStep
             \/ Len(results') > Len(results) /\ SendStep /\ TaskStep]_vars
    /\ [][TaskStep =>
             /\ TranslatorUntouched
             /\ UNCHANGED <<pc, tick, intercepted, now, woken>>
             /\ \A t \in tasks \ tasks' :
                    /\ tasks' = tasks \ {t}
                    /\ SendStep
                    /\ results'[Len(results')].request_id = t.request_id
                    /\ task_frames' = task_frames]_vars

\* The tick answering the frame of the first task is draining, and the
\* message of that task is in the channel for the barrier still open.
C38_Witness ==
    /\ pc = "drain"
    /\ woken = 1
    /\ task_frames = 1
    /\ tick.log = << >>
    /\ Len(opened) = 1
    /\ closed = << >>
    /\ Len(results) = 1
    /\ HeadMatchesBarrier

----------------------------------------------------------------------------
(* What on_draw_tick reports.                                              *)

\* The value of needs_redraw that on_draw_tick returns, in the state it
\* returns from: false when disabled, and otherwise what drain_results
\* gathered or maybe_flush_timeout answers.
OnDrawTickResult ==
    IF pc = "return" THEN FALSE
    ELSE tick.needs_redraw
            \/ MaybeFlushTimeout(World, tick.active_thread_id).ret

\* A message received so far in this tick has closed a barrier.
ClosedWhileDraining == \E k \in 1..Len(tick.log) : tick.log[k] = "resolved"

\* C39: a tick begins with nothing closed and needs_redraw false; each
\* message it receives either closes the open barrier or is discarded and
\* closes nothing, and needs_redraw tells whether one so far has closed a
\* barrier; nothing else closes a barrier before the timeout check; and the
\* value on_draw_tick returns is true exactly when a message received in the
\* tick closed a barrier or its timeout check closes one.
C39_RedrawIffBarrierClosed ==
    /\ [][(pc = "idle" /\ pc' /= "idle") =>
             /\ closed' = closed
             /\ pc' = "drain" => ~tick'.needs_redraw /\ tick'.log = << >>]_vars
    /\ [][ReceiveStep =>
             /\ Len(tick'.log) = Len(tick.log) + 1
             /\ SubSeq(tick'.log, 1, Len(tick.log)) = tick.log
             /\ ClosingStep <=> tick'.log[Len(tick'.log)] = "resolved"
             /\ ClosingStep \/ closed' = closed]_vars
    /\ [][(pc /= "idle" /\ ~ReceiveStep /\ ~TickReturnStep) =>
             closed' = closed /\ tick' = tick]_vars
    /\ [](pc \in {"drain", "timeout"} =>
             (tick.needs_redraw <=> ClosedWhileDraining))
    /\ [][pc = "return" => closed' = closed]_vars
    /\ [][TickReturnStep =>
             (OnDrawTickResult <=>
                 (pc = "timeout" /\ (ClosedWhileDraining \/ ClosingStep)))]_vars

\* A tick is at its timeout check, before the deadline of the barrier that
\* is open, having received two messages: the first closed a barrier, the
\* second was discarded; it is about to return needs_redraw = true.
C39_Witness ==
    /\ pc = "timeout"
    /\ Len(tick.log) = 2
    /\ tick.log[1] = "resolved"
    /\ tick.log[2] /= "resolved"
    /\ tick.needs_redraw
    /\ IsSome(translation_barrier)
    /\ ~BarrierExpired
    /\ OnDrawTickResult
====
